---- MODULE Spec2Model ----
(***************************************************************************)
(* A model of the EDINET annual-report QA pipeline of chat-orchestrator    *)
(* (src/backend/skills/edinet_report_qa): the company resolver, the        *)
(* documents repository with its two-stage on-disk cache, the XBRL         *)
(* continuation-chain extractor, the section catalog, the intent parser    *)
(* and the skill's run().                                                   *)
(*                                                                         *)
(* Text is modelled as a sequence of one-character strings.  Python's None *)
(* and "" are both written <<>> wherever the code only tests truthiness.   *)
(* Every component has its own specification; the variables of the other   *)
(* components stay at their idle value.                                    *)
(***************************************************************************)
EXTENDS Integers, Sequences, FiniteSets, TLC

VARIABLES
    \* ---- CompanyResolver.resolve_many ----
    r_registry,     \* self._index: the parsed registry rows
    r_fallback,     \* fallback_entries
    r_queries,      \* company_queries
    r_disamb,       \* TRUE iff a disambiguator is supplied
    r_i,            \* number of deduplicated queries already processed
    r_seen,         \* seen: set of resolved registry codes
    r_results,      \* results
    r_calls,        \* the calls of the disambiguator so far: query, candidates, answer
    r_pc,           \* "loop" while resolve_many iterates, "done" once it returned
    \* ---- DocumentsRepository.get_documents_for_date, one calendar date ----
    d_remote,       \* the version of the date's listing the remote serves now
    d_updates,      \* how often the remote's listing changed since the start
    d_now,          \* the clock, in hours
    d_force,        \* force_refresh
    d_meta_file,    \* meta_<date>.json: <<>> or <<[payload, mtime]>>
    d_docs_file,    \* docs_<date>.json: <<>> or <<[payload, mtime]>>
    d_req,          \* per request: its repository instance and its position
    \* ---- XbrlExtractor._collect_payload_with_continuation ----
    x_elems,        \* the document's elements, in document order
    x_head,         \* el: the position of the element whose payload is resolved
    x_chunks,       \* chunks
    x_continued_at, \* continued_at, "" for None
    x_visited,      \* visited
    x_steps,        \* iterations of the while loop so far
    x_pc,           \* "loop", "break" after a missing target, "done" once returned
    x_result,       \* the returned payload
    \* ---- SectionCatalog.select_sections ----
    s_catalog,      \* self.sections
    s_question,     \* question
    s_queries,      \* intent_section_queries
    s_i,            \* number of section queries already matched
    s_selected,     \* selected_ids, each with its entry of reasons
    s_unresolved,   \* unresolved_queries
    s_pc,           \* "queries", "defaults", "done"
    \* ---- IntentParser.parse ----
    i_user_text,    \* user_text
    i_history,      \* history
    i_model,        \* TRUE iff skill_context names a model
    i_answer,       \* what run_json_prompt answered
    i_intent,       \* the ParsedIntent returned
    i_pc,           \* "start", "llm" while the model is awaited, "done", "raised"
    \* ---- DocumentsRepository.find_latest_annual_filing ----
    f_world,        \* the listing get_documents_for_date returns for each day
    f_lookback,     \* lookback_days
    f_fiscal_year,  \* fiscal_year, <<>> for None
    f_period,       \* period_end_year and period_end_month, <<>> for None
    f_offset,       \* offset: the days scanned so far
    f_candidates,   \* candidates
    f_result,       \* <<>> for None, or the FilingMatch returned
    f_pc,           \* "scan", "done"
    \* ---- EdinetReportQASkill.run ----
    k_user_text,    \* user_text
    k_settings,     \* get_settings() and the state of the registry's cache file
    k_filers,       \* the companies whose annual report the remote lists today
    k_code_index,   \* code_index, <<>> for None and for []
    k_resolutions,  \* resolutions
    k_company,      \* the position of the company being processed
    k_offset,       \* offset of the scan of that company
    k_docs_by_date, \* docs_by_date: per day "absent", "empty" or "listed"
    k_api_errors,   \* api_errors, as the set line 278 makes of it
    k_failures,     \* daily listings that failed so far
    k_candidates,   \* candidates of the company being processed
    k_hits,         \* extraction_hits
    k_report,       \* lines, one tag per block of the report
    k_pc,           \* "start", "rerank", "load_index", "registry", "scan", "bundle", "done", "raised"
    \* ---- DocumentsRepository.download_xbrl ----
    b_force_refresh, \* self.force_refresh
    b_now,          \* the clock, in hours
    b_extracted,    \* per document: the *.xbrl file under its cache directory, <<>> for none
    b_doc,          \* doc_id of the call in progress or of the last call
    b_cached,       \* what _find_cached_xbrl saw at that call, <<>> for None or not asked
    b_requests,     \* requests sent to the remote so far
    b_calls,        \* calls of download_xbrl so far
    b_outcome,      \* how the request of the last call ended, "none" without a request
    b_api_errors,   \* api_errors
    b_result,       \* the value returned last, <<>> for None
    b_pc,           \* "idle", "get" while the response is awaited, "raised"
    \* ---- JsonFileCache ----
    c_ttl_hours,    \* self.ttl_hours
    c_now,          \* the clock, in half hours
    c_files,        \* per path: <<>> when the file is absent, else its text and mtime
    c_written,      \* per namespace and parameter set: the payload of the last set that
                    \* wrote the file, and whether the file still holds what it wrote
    c_ops,          \* calls of get and set so far
    c_last,         \* the namespace and params of the get that just returned, else <<>>
    c_result,       \* what the last get returned, <<>> for None
    \* ---- XbrlExtractor.extract_first_available ----
    e_elems,        \* the elements of the document, in document order
    e_tag_candidates, \* tag_candidates
    e_selected_tag, \* selected_tag, <<>> for None
    e_pos,          \* the position of the loop of line 34 in the document
    e_texts,        \* texts
    e_result,       \* the pair returned: the text (<<>> for None) and the tag or the reason
    e_pc,           \* "start", "iter", "done"
    \* ---- DocumentsRepository.collect_recent_company_entries ----
    g_world,        \* the listing get_documents_for_date returns for each day
    g_lookback,     \* lookback_days
    g_offset,       \* offset: the days scanned so far
    g_entries,      \* entries, in insertion order
    g_result,       \* the list returned
    g_pc            \* "scan", "done"

dvars == <<d_remote, d_updates, d_now, d_force, d_meta_file, d_docs_file, d_req>>

xvars == <<x_elems, x_head, x_chunks, x_continued_at, x_visited, x_steps, x_pc, x_result>>

svars == <<s_catalog, s_question, s_queries, s_i, s_selected, s_unresolved, s_pc>>

ivars == <<i_user_text, i_history, i_model, i_answer, i_intent, i_pc>>

fvars == <<f_world, f_lookback, f_fiscal_year, f_period, f_offset, f_candidates, f_result, f_pc>>

kvars == <<k_user_text, k_settings, k_filers, k_code_index, k_resolutions, k_company, k_offset,
           k_docs_by_date, k_api_errors, k_failures, k_candidates, k_hits, k_report, k_pc>>

bvars == <<b_force_refresh, b_now, b_extracted, b_doc, b_cached, b_requests, b_calls, b_outcome,
           b_api_errors, b_result, b_pc>>

cvars == <<c_ttl_hours, c_now, c_files, c_written, c_ops, c_last, c_result>>

evars == <<e_elems, e_tag_candidates, e_selected_tag, e_pos, e_texts, e_result, e_pc>>

gvars == <<g_world, g_lookback, g_offset, g_entries, g_result, g_pc>>

rvars == <<r_registry, r_fallback, r_queries, r_disamb, r_i, r_seen, r_results, r_calls, r_pc>>

(***************************************************************************)
(* Text helpers                                                            *)
(***************************************************************************)
Digits == {"0", "1", "2", "3", "4", "5", "6", "7", "8", "9"}

\* characters str.strip() removes: the ASCII space, the ideographic space and
\* the newline
Whitespace == {" ", "FW_SP", "NL"}

\* unicodedata.normalize("NFKC", c) for one character: full-width forms fold
\* to their ASCII form, the ideographic space to the ASCII space
Nfkc(c) ==
    CASE c = "FW_A" -> "A"
      [] c = "FW_E" -> "E"
      [] c = "FW_1" -> "1"
      [] c = "FW_SP" -> " "
      [] OTHER -> c

\* str.lower() for one character
Lower(c) ==
    CASE c = "A" -> "a"
      [] c = "B" -> "b"
      [] c = "C" -> "c"
      [] c = "D" -> "d"
      [] c = "E" -> "e"
      [] c = "G" -> "g"
      [] c = "M" -> "m"
      [] c = "S" -> "s"
      [] OTHER -> c

\* str.upper() for one character
Upper(c) ==
    CASE c = "a" -> "A"
      [] c = "b" -> "B"
      [] c = "c" -> "C"
      [] c = "d" -> "D"
      [] c = "e" -> "E"
      [] c = "g" -> "G"
      [] c = "m" -> "M"
      [] c = "s" -> "S"
      [] OTHER -> c

NfkcAll(s) == [k \in 1..Len(s) |-> Nfkc(s[k])]
LowerAll(s) == [k \in 1..Len(s) |-> Lower(s[k])]
UpperAll(s) == [k \in 1..Len(s) |-> Upper(s[k])]

RECURSIVE LStrip(_)
LStrip(s) == IF s # <<>> /\ Head(s) \in Whitespace THEN LStrip(Tail(s)) ELSE s

RECURSIVE RStrip(_)
RStrip(s) ==
    IF s # <<>> /\ s[Len(s)] \in Whitespace THEN RStrip(SubSeq(s, 1, Len(s) - 1)) ELSE s

\* str.strip()
Strip(s) == RStrip(LStrip(s))

\* t in s (Python substring test)
Contains(s, t) == \E k \in 0..(Len(s) - Len(t)) : SubSeq(s, k + 1, k + Len(t)) = t

\* s.replace(pat, ""), pat non-empty: leftmost non-overlapping occurrences
RECURSIVE Remove(_, _)
Remove(s, pat) ==
    IF Len(s) < Len(pat) THEN s
    ELSE IF SubSeq(s, 1, Len(pat)) = pat THEN Remove(SubSeq(s, Len(pat) + 1, Len(s)), pat)
    ELSE <<Head(s)>> \o Remove(Tail(s), pat)

\* the corporate decorations _norm_text removes; "KK" stands for the
\* four-character word for "stock company"
KabushikiGaisha == <<"KK">>
KabuParen == <<"(", "K", ")">>

\* company_resolver._norm_text
NormText(text) ==
    Remove(Remove(Remove(Remove(Strip(LowerAll(NfkcAll(text))),
                                KabushikiGaisha), KabuParen), <<" ">>), <<"FW_SP">>)

\* re.fullmatch(r"E\d{5}", s)
IsEdinetToken(s) == Len(s) = 6 /\ s[1] = "E" /\ \A k \in 2..6 : s[k] \in Digits

\* re.fullmatch(r"\d{4}", s)
IsSecToken(s) == Len(s) = 4 /\ \A k \in 1..4 : s[k] \in Digits

\* seq[:n]
Take(seq, n) == SubSeq(seq, 1, IF Len(seq) < n THEN Len(seq) ELSE n)

Range(seq) == {seq[k] : k \in 1..Len(seq)}

(***************************************************************************)
(* CompanyResolver                                                         *)
(***************************************************************************)
\* the cap on substring and fallback candidates ([:8])
CandidateCap == 8
\* the cap on the candidates attached to an ambiguous resolution ([:5])
AttachedCap == 5

\* CompanyResolver._to_candidate
ToCandidate(row, source) ==
    [edinet_code |-> row.edinet_code, company_name |-> row.company_name,
     sec_code |-> row.sec_code, source |-> source]

\* self._by_edinet.get(code): a dict built in row order, so the last row with
\* the code wins; <<>> when there is none
ByEdinet(index, code) ==
    LET hits == SelectSeq(index, LAMBDA row : row.edinet_code = code)
    IN  IF hits = <<>> THEN <<>> ELSE <<hits[Len(hits)]>>

\* lines 128-134: a registry-code token is looked up in _by_edinet; a token
\* the registry does not hold becomes a candidate made from the token itself
EdinetTokenCandidates(row, edinet) ==
    IF row # <<>> THEN <<ToCandidate(row[1], "CSV")>>
    ELSE <<[edinet_code |-> edinet, company_name |-> edinet, sec_code |-> <<>>, source |-> "code"]>>

\* mutant of NameCandidates: the containing rows even when a name is equal
NameCandidates_NoExactStep(exact, contains) ==
    Take([k \in 1..Len(contains) |-> ToCandidate(contains[k], "CSV")], CandidateCap)

\* lines 141-150: the rows whose normalized name equals the query, else the
\* first 8 rows whose normalized name contains it
NameCandidates(exact, contains) ==
    IF exact # <<>> THEN [k \in 1..Len(exact) |-> ToCandidate(exact[k], "CSV")]
    ELSE Take([k \in 1..Len(contains) |-> ToCandidate(contains[k], "CSV")], CandidateCap)

\* CompanyResolver._find_candidates, lines 128-150, for a non-empty token
FindCandidatesNormalized(index, normalized, upper) ==
    IF IsEdinetToken(upper) THEN EdinetTokenCandidates(ByEdinet(index, upper), upper)
    ELSE IF IsSecToken(normalized) THEN
        [k \in 1..Len(SelectSeq(index, LAMBDA row : row.sec_code = normalized)) |->
            ToCandidate(SelectSeq(index, LAMBDA row : row.sec_code = normalized)[k], "CSV")]
    ELSE NameCandidates(
            SelectSeq(index, LAMBDA row : NormText(row.company_name) = normalized),
            SelectSeq(index, LAMBDA row : Contains(NormText(row.company_name), normalized)))

\* CompanyResolver._find_candidates
FindCandidates(index, query) ==
    IF Strip(query) = <<>> \/ NormText(Strip(query)) = <<>> THEN <<>>
    ELSE FindCandidatesNormalized(index, NormText(Strip(query)),
                                  UpperAll(NormText(Strip(query))))

\* list(by_code.values()): one item per registry code, at the position of the
\* code's first occurrence, holding the code's last item
LastWithCode(items, code) ==
    items[CHOOSE k \in 1..Len(items) :
            /\ items[k].edinet_code = code
            /\ \A j \in (k + 1)..Len(items) : items[j].edinet_code # code]

FirstOccurrences(items) ==
    SelectSeq([k \in 1..Len(items) |-> k],
              LAMBDA k : \A j \in 1..(k - 1) : items[j].edinet_code # items[k].edinet_code)

DictByCode(items) ==
    [k \in 1..Len(FirstOccurrences(items)) |->
        LastWithCode(items, items[FirstOccurrences(items)[k]].edinet_code)]

\* lines 164-176: the usable fallback rows (non-empty name and code) as candidates
FallbackCandidate(row) ==
    [edinet_code |-> Strip(row.edinet_code), company_name |-> Strip(row.company_name),
     sec_code |-> Strip(row.sec_code), source |-> "API"]

FallbackUsable(fallback_entries) ==
    SelectSeq(fallback_entries, LAMBDA row : Strip(row.company_name) # <<>> /\ Strip(row.edinet_code) # <<>>)

\* lines 182-186
MergeFallback(exact, partial) == Take(DictByCode(IF exact # <<>> THEN exact ELSE partial), CandidateCap)

FallbackMatches(cand, normalized) ==
    MergeFallback(
        SelectSeq(cand, LAMBDA c : NormText(c.company_name) = normalized),
        SelectSeq(cand, LAMBDA c : NormText(c.company_name) # normalized
                                    /\ Contains(NormText(c.company_name), normalized)))

\* CompanyResolver._find_candidates_in_fallback
FindCandidatesInFallback(query, fallback_entries) ==
    IF NormText(query) = <<>> THEN <<>>
    ELSE FallbackMatches([k \in 1..Len(FallbackUsable(fallback_entries)) |->
                              FallbackCandidate(FallbackUsable(fallback_entries)[k])],
                         NormText(query))

\* CompanyResolver._dedupe_preserve_order
RECURSIVE DedupeFrom(_, _)
DedupeFrom(items, seenKeys) ==
    IF items = <<>> THEN <<>>
    ELSE LET key == NormText(Head(items))
         IN  IF key = <<>> \/ key \in seenKeys THEN DedupeFrom(Tail(items), seenKeys)
             ELSE <<Head(items)>> \o DedupeFrom(Tail(items), seenKeys \cup {key})

DedupePreserveOrder(items) == DedupeFrom(items, {})

\* lines 63-65: the registry first, the fallback entries only if it yields nothing
CandidatesFor(index, fallback_entries, query) ==
    IF FindCandidates(index, query) # <<>> THEN FindCandidates(index, query)
    ELSE FindCandidatesInFallback(query, fallback_entries)

\* a resolved CompanyResolution (lines 73-79 and 89-95)
Resolved(query, picked, reason) ==
    [query |-> query, edinet_code |-> picked.edinet_code, sec_code |-> picked.sec_code,
     company_name |-> picked.company_name, reason |-> reason, candidates |-> <<>>]

\* mutant of NotResolved: the first attached candidate's code is kept
NotResolved_KeepsCode(query, reason, candidates) ==
    [query |-> query, edinet_code |-> IF candidates = <<>> THEN <<>> ELSE candidates[1].edinet_code,
     sec_code |-> <<>>, company_name |-> <<>>, reason |-> reason, candidates |-> candidates]

\* a CompanyResolution without a code (lines 100-118)
NotResolved(query, reason, candidates) ==
    [query |-> query, edinet_code |-> <<>>, sec_code |-> <<>>,
     company_name |-> <<>>, reason |-> reason, candidates |-> candidates]

\* mutant of NotYetSeen: the check against seen left out
NotYetSeen_Always(code, seen) == TRUE

\* line 69 / line 86: the check against the codes resolved so far
NotYetSeen(code, seen) == code \notin seen

\* The codes a disambiguator may answer: a candidate's code, a code that is
\* no candidate, or None (<<>>)
StrangerCode == <<"E", "9", "9", "9", "9", "9">>
DisambAnswers(candidates) == {candidates[k].edinet_code : k \in 1..Len(candidates)} \cup {StrangerCode, <<>>}

\* ---- inputs of the resolver model ----
E1 == <<"E", "0", "0", "0", "0", "1">>
E2 == <<"E", "0", "0", "0", "0", "2">>
E3 == <<"E", "0", "0", "0", "0", "3">>
E4 == <<"E", "0", "0", "0", "0", "4">>
Sec1 == <<"7", "2", "0", "3">>
Sec2 == <<"6", "7", "5", "8">>

Row(code, sec, name) == [edinet_code |-> code, sec_code |-> sec, company_name |-> name]

\* registries _parse_code_list_csv can produce: rows with a non-empty code
\* and name, the secondary code empty or four digits
RegistryUniverse ==
    { <<>>,
      <<Row(E1, Sec1, <<"A", "b", " ", "c">>)>>,
      <<Row(E2, <<>>, <<"a", "b">>), Row(E3, <<>>, <<"KK", "a", "b">>)>>,
      <<Row(E1, Sec1, <<"a", "b", "c">>), Row(E2, Sec1, <<"a", "b">>), Row(E3, Sec2, <<"c", "b">>)>>,
      [k \in 1..(CandidateCap + 1) |->
          Row(<<"E", "0", "0", "0", "1", CHOOSE d \in Digits : d = ToString(k)>>, Sec2, <<"y", "y">>)]
        \o <<Row(E3, Sec1, <<"c", "b">>)>> }

FallbackUniverse ==
    { <<>>,
      <<Row(E4, Sec2, <<"z", "a">>)>>,
      <<Row(E4, <<>>, <<"z", "a">>), Row(E1, Sec1, <<" ", "z", "b">>), Row(E4, <<>>, <<"z", "b">>)>> }

QueryUniverse ==
    { E1, <<"e", "0", "0", "0", "0", "1">>, E4, Sec1,
      <<"a", "b">>, <<"FW_A", "B", " ">>, <<"a", "b", "c">>, <<"b">>, <<"z">>, <<" ">>,
      <<"y">>, <<"y", "y">> }

\* longest list of company queries
MaxQueries == 2

SeqsUpTo(S, n) == UNION {[1..m -> S] : m \in 0..n}

ResolveInit ==
    /\ r_registry \in RegistryUniverse
    /\ r_fallback \in FallbackUniverse
    /\ r_queries \in SeqsUpTo(QueryUniverse, MaxQueries)
    /\ r_disamb \in BOOLEAN
    /\ r_i = 0
    /\ r_seen = {}
    /\ r_results = <<>>
    /\ r_calls = <<>>
    /\ r_pc = "loop"

\* the candidate the disambiguator's answer names (line 85), <<>> if none
PickByCode(candidates, picked_code) ==
    IF SelectSeq(candidates, LAMBDA cand : cand.edinet_code = picked_code) = <<>> THEN <<>>
    ELSE <<SelectSeq(candidates, LAMBDA cand : cand.edinet_code = picked_code)[1]>>

\* one iteration of the loop of resolve_many (lines 62-119)
ResolveQuery ==
    /\ r_pc = "loop"
    /\ r_i < Len(DedupePreserveOrder(r_queries))
    /\ \E query \in {DedupePreserveOrder(r_queries)[r_i + 1]} :
       \E candidates \in {CandidatesFor(r_registry, r_fallback, query)} :
           /\ r_i' = r_i + 1
           /\ IF Len(candidates) = 1 THEN
                 /\ r_calls' = r_calls
                 /\ IF NotYetSeen(candidates[1].edinet_code, r_seen)
                    THEN /\ r_seen' = r_seen \cup {candidates[1].edinet_code}
                         /\ r_results' = Append(r_results, Resolved(query, candidates[1], "match"))
                    ELSE UNCHANGED <<r_seen, r_results>>
              ELSE IF Len(candidates) > 1 /\ r_disamb THEN
                 \E picked_code \in DisambAnswers(candidates) :
                 \E picked \in {PickByCode(candidates, picked_code)} :
                        /\ r_calls' = Append(r_calls, [query |-> query, candidates |-> candidates,
                                                     answer |-> picked_code])
                        /\ IF picked # <<>> /\ NotYetSeen(picked[1].edinet_code, r_seen)
                           THEN /\ r_seen' = r_seen \cup {picked[1].edinet_code}
                                /\ r_results' = Append(r_results, Resolved(query, picked[1], "disambiguated"))
                           ELSE /\ r_seen' = r_seen
                                /\ r_results' = Append(r_results,
                                        NotResolved(query, "ambiguous", Take(candidates, AttachedCap)))
              ELSE IF Len(candidates) > 1 THEN
                 /\ r_results' = Append(r_results, NotResolved(query, "ambiguous", Take(candidates, AttachedCap)))
                 /\ UNCHANGED <<r_seen, r_calls>>
              ELSE
                 /\ r_results' = Append(r_results, NotResolved(query, "unidentified", <<>>))
                 /\ UNCHANGED <<r_seen, r_calls>>
    /\ UNCHANGED <<r_registry, r_fallback, r_queries, r_disamb, r_pc>>

\* line 120: return results
ReturnResults ==
    /\ r_pc = "loop"
    /\ r_i = Len(DedupePreserveOrder(r_queries))
    /\ r_pc' = "done"
    /\ UNCHANGED <<r_registry, r_fallback, r_queries, r_disamb, r_i, r_seen, r_results, r_calls>>

\* the resolver at rest, for the specifications of the other components
ResolveIdle ==
    /\ r_registry = <<>>
    /\ r_fallback = <<>>
    /\ r_queries = <<>>
    /\ r_disamb = FALSE
    /\ r_i = 0
    /\ r_seen = {}
    /\ r_results = <<>>
    /\ r_calls = <<>>
    /\ r_pc = "done"

(* C1: resolve_many never returns two resolutions that carry the same
   non-empty resolved registry code. *)
C1_NoDuplicateResolvedCode ==
    \A a, b \in 1..Len(r_results) :
        (a # b /\ r_results[a].edinet_code # <<>>) => r_results[a].edinet_code # r_results[b].edinet_code

\* two different queries led to the same registry code and resolve_many returned
C1_Witness ==
    /\ r_pc = "done"
    /\ \E a, b \in 1..Len(DedupePreserveOrder(r_queries)) :
          LET ca == CandidatesFor(r_registry, r_fallback, DedupePreserveOrder(r_queries)[a])
              cb == CandidatesFor(r_registry, r_fallback, DedupePreserveOrder(r_queries)[b])
          IN  /\ a < b
              /\ Len(ca) = 1
              /\ \E k \in 1..Len(cb) : cb[k].edinet_code = ca[1].edinet_code
              /\ \E k \in 1..Len(r_results) : r_results[k].edinet_code = ca[1].edinet_code

\* the registry codes of a list of rows or candidates, in order
CodesOf(items) == [k \in 1..Len(items) |-> items[k].edinet_code]

\* the codes the stated precedence yields for a normalized query n: the
\* registry-code token itself; else the rows with the 4-digit secondary
\* code; else the rows whose normalized name equals n; else the first 8
\* rows whose normalized name contains n
PrecedenceCodes(index, n) ==
    IF IsEdinetToken(UpperAll(n)) THEN <<UpperAll(n)>>
    ELSE IF IsSecToken(n) THEN CodesOf(SelectSeq(index, LAMBDA row : row.sec_code = n))
    ELSE IF \E k \in 1..Len(index) : NormText(index[k].company_name) = n
         THEN CodesOf(SelectSeq(index, LAMBDA row : NormText(row.company_name) = n))
    ELSE Take(CodesOf(SelectSeq(index, LAMBDA row : Contains(NormText(row.company_name), n))), 8)

\* n is contained in the normalized name of exactly one row (row k) and
\* matches at no earlier step
OnlySubstringOf(index, n, k) ==
    /\ ~IsEdinetToken(UpperAll(n)) /\ ~IsSecToken(n)
    /\ \A j \in 1..Len(index) :
          /\ NormText(index[j].company_name) # n
          /\ Contains(NormText(index[j].company_name), n) <=> j = k

(* C12: the candidates of a query against the registry follow the strict
   precedence registry-code token, 4-digit secondary code, equal normalized
   name, containing normalized name cut to the first 8 rows in registry
   order; a query that is contained in exactly one registry name and matches
   nothing earlier is resolved to that row's code. *)
C12_CandidatePrecedence ==
    \A i \in 1..r_i :
        /\ CodesOf(FindCandidates(r_registry, DedupePreserveOrder(r_queries)[i]))
              = PrecedenceCodes(r_registry, NormText(DedupePreserveOrder(r_queries)[i]))
        /\ \A k \in 1..Len(r_registry) :
              OnlySubstringOf(r_registry, NormText(DedupePreserveOrder(r_queries)[i]), k) =>
                  /\ \E j \in 1..Len(r_results) :
                        r_results[j].edinet_code = r_registry[k].edinet_code
                  /\ i = 1 => /\ r_results[1].query = DedupePreserveOrder(r_queries)[1]
                              /\ r_results[1].edinet_code = r_registry[k].edinet_code
                              /\ r_results[1].candidates = <<>>

\* resolve_many returned for a substring query that nine rows contain, cut
\* to 8 candidates, followed by a substring query of exactly one row, which
\* is resolved to that row's code
C12_Witness ==
    /\ r_pc = "done"
    /\ DedupePreserveOrder(r_queries) = <<<<"y">>, <<"b">>>>
    /\ Len(SelectSeq(r_registry, LAMBDA row : Contains(NormText(row.company_name), <<"y">>))) > 8
    /\ Len(FindCandidates(r_registry, <<"y">>)) = 8
    /\ \E k \in 1..Len(r_registry) : OnlySubstringOf(r_registry, <<"b">>, k)
    /\ r_results[2].query = <<"b">> /\ r_results[2].edinet_code = E3

(* C13: when the registry yields no candidate for a query, the fallback
   entries are searched with the registry's precedence: a query equal to a
   usable fallback entry's registry code or secondary code has that entry
   among its candidates. *)
C13_FallbackSearchedByCode ==
    \A i \in 1..r_i : \A k \in 1..Len(FallbackUsable(r_fallback)) :
        ( /\ FindCandidates(r_registry, DedupePreserveOrder(r_queries)[i]) = <<>>
          /\ \/ UpperAll(NormText(DedupePreserveOrder(r_queries)[i]))
                    = Strip(FallbackUsable(r_fallback)[k].edinet_code)
             \/ NormText(DedupePreserveOrder(r_queries)[i])
                    = Strip(FallbackUsable(r_fallback)[k].sec_code) )
        => \E c \in Range(CandidatesFor(r_registry, r_fallback, DedupePreserveOrder(r_queries)[i])) :
              c.edinet_code = Strip(FallbackUsable(r_fallback)[k].edinet_code)

(* C14: for a query with more than one candidate, at every position of the
   query list: when the disambiguator answers a code that is among the
   candidates, the query's resolution is resolved to that code with the
   reason marking disambiguation; when it answers nothing or a code that is
   no candidate, the resolution is ambiguous with the top candidates
   attached. *)
C14_DisambiguatorAnswerDecides ==
    \A n \in 1..Len(r_calls) :
        \E j \in 1..Len(r_results) :
            /\ r_results[j].query = r_calls[n].query
            /\ IF \E k \in 1..Len(r_calls[n].candidates) :
                      r_calls[n].candidates[k].edinet_code = r_calls[n].answer
               THEN /\ r_results[j].edinet_code = r_calls[n].answer
                    /\ r_results[j].reason = "disambiguated"
               ELSE /\ r_results[j].edinet_code = <<>>
                    /\ r_results[j].reason = "ambiguous"
                    /\ r_results[j].candidates = Take(r_calls[n].candidates, 5)

(* C15: the disambiguator is called only for a query with more than one
   candidate, at most once per query, and never with more than 8
   candidates, whichever search step produced them. *)
C15_DisambiguatorCallsBounded ==
    /\ \A n \in 1..Len(r_calls) :
          /\ Len(r_calls[n].candidates) > 1
          /\ Len(r_calls[n].candidates) <= 8
          /\ r_calls[n].candidates
                = CandidatesFor(r_registry, r_fallback, r_calls[n].query)
    /\ \A m, n \in 1..Len(r_calls) : m # n => r_calls[m].query # r_calls[n].query

(* C16: every resolution resolve_many returns is either resolved, with a
   non-empty code and name and no candidates, or not resolved, with an empty
   code, at most 5 attached candidates and a non-empty reason; none is both
   resolved and carrying candidates. *)
C16_ResolvedXorAmbiguous ==
    \A j \in 1..Len(r_results) :
        \/ /\ r_results[j].edinet_code # <<>>
           /\ r_results[j].company_name # <<>>
           /\ r_results[j].candidates = <<>>
        \/ /\ r_results[j].edinet_code = <<>>
           /\ Len(r_results[j].candidates) <= 5
           /\ r_results[j].reason # ""

\* resolve_many returned a resolved resolution next to an ambiguous one whose
\* query had more than 5 candidates
C16_Witness ==
    /\ r_pc = "done"
    /\ \E a, b \in 1..Len(r_results) :
          /\ r_results[a].edinet_code # <<>>
          /\ r_results[b].edinet_code = <<>>
          /\ Len(r_results[b].candidates) = 5
          /\ Len(CandidatesFor(r_registry, r_fallback, r_results[b].query)) > 5

\* the registry codes of the registry's rows and of the fallback entries
KnownCodes ==
    {r_registry[k].edinet_code : k \in 1..Len(r_registry)}
        \cup {r_fallback[k].edinet_code : k \in 1..Len(r_fallback)}

(* C29: every resolved code resolve_many returns is the registry code of a
   row of the registry or of an entry of the fallback list; a well-formed
   registry-code token that occurs in neither is reported as unresolved. *)
C29_ResolvedCodesAreKnown ==
    \A k \in 1..Len(r_results) :
        r_results[k].edinet_code # <<>> => r_results[k].edinet_code \in KnownCodes

(***************************************************************************)
(* DocumentsRepository.get_documents_for_date                              *)
(*                                                                         *)
(* One calendar date.  The remote serves version d_remote of the date's    *)
(* listing; version v lists the documents 1..v, so version 0 is a day      *)
(* without filings.  Each request owns one DocumentsRepository instance    *)
(* (its in-memory _docs_cache and its api_errors list); all requests share *)
(* the cache directory.  A request runs atomically between two awaits.     *)
(***************************************************************************)
Requests == {1, 2}

\* the most changes of the remote's listing
MaxUpdates == 1
\* the last hour of the clock
MaxClock == 2
\* the most calls one repository instance makes for the date
MaxCalls == 2
\* self.ttl_hours, at its least value max(1, ttl_hours)
TtlHours == 1

\* the "results" of the full listing (fetch_type 2) of version v
RemoteListing(v) == [k \in 1..v |-> k]

\* the payload of the probe (fetch_type 1) of version v
RemoteMeta(v) == [count |-> v, process |-> v, status |-> "200"]

\* the payload of the full listing of version v
RemoteDocs(v) == [count |-> v, process |-> v, status |-> "200", results |-> RemoteListing(v)]

\* DocumentsRepository._metadata_fingerprint
MetadataFingerprint(payload) == <<payload.count, payload.process, payload.status>>

\* DocumentsRepository._same_metadata; cached is <<>> for None
SameMetadata(current, cached) ==
    IF cached = <<>> THEN FALSE
    ELSE MetadataFingerprint(current) = MetadataFingerprint(cached[1])

\* DocumentsRepository._is_cache_fresh
IsCacheFresh(file, now) == file # <<>> /\ now - file[1].mtime <= TtlHours

\* DocumentsRepository._read_json_file: <<>> for None
ReadJsonFile(file, now) == IF IsCacheFresh(file, now) THEN <<file[1].payload>> ELSE <<>>

\* DocumentsRepository._extract_docs
ExtractDocs(payload) == payload.results

\* DocumentsRepository._read_docs_payload
ReadDocsPayload(file, now) ==
    IF ReadJsonFile(file, now) = <<>> THEN <<>> ELSE ExtractDocs(ReadJsonFile(file, now)[1])

\* DocumentsRepository._write_json_file
WriteJsonFile(payload, now) == <<[payload |-> payload, mtime |-> now]>>

\* line 57: the cached listing is reused
ReuseCached(cached_docs, remote_meta, cached_meta) ==
    cached_docs # <<>> /\ SameMetadata(remote_meta, cached_meta)

\* what one client.get of _fetch_documents_payload can end in: a dict
\* payload, a non-200 status, a body that is no JSON, JSON that is no
\* object, or an exception of the transport (httpx.TransportError)
FetchOutcomes == {"ok", "status", "invalid_json", "unexpected_payload", "transport"}

\* a repository instance before its first call
FreshRequest ==
    [pc |-> "idle", calls |-> 0, mem |-> <<>>, api_errors |-> <<>>,
     cached_meta |-> <<>>, cached_docs |-> <<>>, had_listing |-> FALSE,
     remote_meta |-> <<>>, probed |-> -1, full_requests |-> 0, probes |-> 0,
     result |-> <<>>, via |-> "none", overlapped |-> FALSE,
     total_probes |-> 0, total_full |-> 0, first |-> <<>>, errors_at_call |-> 0]

\* the list the instance's first call returned is kept for comparison
Returned(req) == [req EXCEPT !.first = IF req.calls = 1 THEN <<req.result>> ELSE @]

\* the requests that await an answer of the remote
InFlight == {q \in Requests : d_req[q].pc \in {"probe", "full"}}

\* the versions the remote may serve at the start
InitialVersions == {0, 1, 2}

\* the cache directory at the start: empty, or left by an earlier run that
\* fetched version c at hour 0
DocsInit ==
    /\ d_remote \in InitialVersions
    /\ d_updates = 0
    /\ d_now = 0
    /\ d_force \in BOOLEAN
    /\ \/ d_meta_file = <<>> /\ d_docs_file = <<>>
       \/ \E c \in 0..d_remote :
             /\ d_meta_file = WriteJsonFile(RemoteMeta(c), 0)
             /\ d_docs_file = WriteJsonFile(RemoteDocs(c), 0)
    /\ d_req = [p \in Requests |-> FreshRequest]

DocsIdle ==
    /\ d_remote = 0
    /\ d_updates = 0
    /\ d_now = 0
    /\ d_force = FALSE
    /\ d_meta_file = <<>>
    /\ d_docs_file = <<>>
    /\ d_req = [p \in Requests |-> FreshRequest]

\* an hour passes
Tick ==
    /\ d_now < MaxClock
    /\ d_now' = d_now + 1
    /\ UNCHANGED <<d_remote, d_updates, d_force, d_meta_file, d_docs_file, d_req>>

\* the remote publishes a new version of the date's listing
RemoteUpdate ==
    /\ d_updates < MaxUpdates
    /\ d_updates' = d_updates + 1
    /\ d_remote' = d_remote + 1
    /\ UNCHANGED <<d_now, d_force, d_meta_file, d_docs_file, d_req>>

\* lines 72-73 and 68-70: the end of a call whose fetch failed
Fallback(req, docs_fresh, error) ==
    Returned(
    [req EXCEPT !.pc = "done",
                !.api_errors = Append(@, error),
                !.mem = IF req.cached_docs # <<>> /\ docs_fresh THEN <<req.cached_docs>> ELSE <<<<>>>>,
                !.result = IF req.cached_docs # <<>> /\ docs_fresh THEN req.cached_docs ELSE <<>>,
                !.via = IF req.cached_docs # <<>> /\ docs_fresh THEN "fallback" ELSE "empty"])

\* lines 45-54: the call up to the await of the probe
Call(p) ==
    /\ d_req[p].pc \in {"idle", "done", "raised"}
    /\ d_req[p].calls < MaxCalls
    /\ IF d_req[p].mem # <<>>
       THEN d_req' = [d_req EXCEPT ![p].calls = @ + 1, ![p].pc = "done",
                                   ![p].result = d_req[p].mem[1], ![p].via = "memory",
                                   ![p].probes = 0, ![p].full_requests = 0,
                                   ![p].errors_at_call = Len(d_req[p].api_errors)]
       ELSE d_req' = [q \in Requests |->
                IF q = p
                THEN [d_req[p] EXCEPT
                        !.calls = @ + 1,
                        !.pc = "probe",
                        !.cached_meta = IF d_force THEN <<>> ELSE ReadJsonFile(d_meta_file, d_now),
                        !.cached_docs = IF d_force THEN <<>> ELSE ReadDocsPayload(d_docs_file, d_now),
                        !.had_listing = ~d_force /\ IsCacheFresh(d_docs_file, d_now),
                        !.remote_meta = <<>>,
                        !.probed = -1,
                        !.probes = 1,
                        !.total_probes = @ + 1,
                        !.errors_at_call = Len(d_req[p].api_errors),
                        !.full_requests = 0,
                        !.result = <<>>,
                        !.via = "none",
                        !.overlapped = InFlight # {}]
                ELSE [d_req[q] EXCEPT !.overlapped = @ \/ q \in InFlight]]
    /\ UNCHANGED <<d_remote, d_updates, d_now, d_force, d_meta_file, d_docs_file>>

\* lines 54-61 and 68-73: the probe's answer arrives
ProbeResponse(p) ==
    /\ d_req[p].pc = "probe"
    /\ \E outcome \in FetchOutcomes :
          IF outcome = "transport" THEN
             /\ d_req' = [d_req EXCEPT ![p].pc = "raised"]
             /\ UNCHANGED <<d_meta_file>>
          ELSE IF outcome # "ok" THEN
             /\ d_req' = [d_req EXCEPT ![p] = Fallback(@, IsCacheFresh(d_docs_file, d_now), <<1, outcome>>)]
             /\ UNCHANGED <<d_meta_file>>
          ELSE
             /\ d_meta_file' = WriteJsonFile(RemoteMeta(d_remote), d_now)
             /\ IF ReuseCached(d_req[p].cached_docs, RemoteMeta(d_remote), d_req[p].cached_meta)
                THEN d_req' = [d_req EXCEPT ![p] = Returned(
                                 [@ EXCEPT !.pc = "done",
                                           !.remote_meta = <<RemoteMeta(d_remote)>>,
                                           !.probed = d_remote,
                                           !.mem = <<d_req[p].cached_docs>>,
                                           !.result = d_req[p].cached_docs,
                                           !.via = "cache"])]
                ELSE d_req' = [d_req EXCEPT ![p].pc = "full",
                                            ![p].remote_meta = <<RemoteMeta(d_remote)>>,
                                            ![p].probed = d_remote,
                                            ![p].full_requests = 1,
                                            ![p].total_full = @ + 1]
    /\ UNCHANGED <<d_remote, d_updates, d_now, d_force, d_docs_file>>

\* lines 61-73: the full listing's answer arrives
FullResponse(p) ==
    /\ d_req[p].pc = "full"
    /\ \E outcome \in FetchOutcomes :
          IF outcome = "transport" THEN
             /\ d_req' = [d_req EXCEPT ![p].pc = "raised"]
             /\ UNCHANGED <<d_docs_file>>
          ELSE IF outcome # "ok" THEN
             /\ d_req' = [d_req EXCEPT ![p] = Fallback(@, IsCacheFresh(d_docs_file, d_now), <<2, outcome>>)]
             /\ UNCHANGED <<d_docs_file>>
          ELSE
             /\ d_docs_file' = WriteJsonFile(RemoteDocs(d_remote), d_now)
             /\ d_req' = [d_req EXCEPT ![p] = Returned(
                              [@ EXCEPT !.pc = "done",
                                        !.mem = <<ExtractDocs(RemoteDocs(d_remote))>>,
                                        !.result = ExtractDocs(RemoteDocs(d_remote)),
                                        !.via = "fetch"])]
    /\ UNCHANGED <<d_remote, d_updates, d_now, d_force, d_meta_file>>

(* C2: whenever the probe succeeds and its fingerprint equals the fingerprint
   of the fresh cached probe, the cached full listing is returned and no
   full-listing request is issued, for every cached listing, a listing with
   zero documents included. *)
C2_MatchingFingerprintReusesListing ==
    \A p \in Requests :
        ( /\ d_req[p].remote_meta # <<>>
          /\ d_req[p].had_listing
          /\ SameMetadata(RemoteMeta(d_req[p].probed), d_req[p].cached_meta) )
        => /\ d_req[p].full_requests = 0
           /\ d_req[p].pc = "done" => (d_req[p].via = "cache" /\ d_req[p].result = d_req[p].cached_docs)

(* C3: get_documents_for_date never raises: after every failure of the probe
   or of the full-listing fetch it returns the listing read from disk if the
   listing file's TTL has not elapsed, and an empty list otherwise. *)
C3_NeverRaises ==
    \A p \in Requests :
        /\ d_req[p].pc # "raised"
        /\ (d_req[p].pc = "done" /\ d_req[p].via \in {"fallback", "empty"} /\ ~d_force)
            => d_req[p].result = (IF IsCacheFresh(d_docs_file, d_now) THEN d_req[p].cached_docs ELSE <<>>)

(* C4: the on-disk cache needs no lock: when requests run concurrently for the
   same date against the same cache directory, the remote's listing does not
   change and no fetch fails, each request returns the listing the remote
   serves for the fingerprint that request probed. *)
C4_ConcurrentRequestsReturnProbedListing ==
    ( /\ d_updates = 0
      /\ \A q \in Requests : d_req[q].api_errors = <<>> /\ d_req[q].pc # "raised" )
    => \A p \in Requests :
          (d_req[p].pc = "done" /\ d_req[p].probed # -1)
          => d_req[p].result = RemoteListing(d_req[p].probed)

(* C27: after any sequence of runs for one date, runs in which the probe
   succeeds and the full-listing fetch fails included, the probe file and
   the listing file on disk describe the same remote version, and a cached
   listing that is reused because the fingerprints match is the listing the
   remote serves for that fingerprint. *)
C27_FilesDescribeSameVersion ==
    (\A q \in Requests : ~d_req[q].overlapped /\ d_req[q].pc \in {"idle", "done"}) =>
        /\ (d_meta_file # <<>> /\ d_docs_file # <<>>) =>
              MetadataFingerprint(d_meta_file[1].payload) = MetadataFingerprint(d_docs_file[1].payload)
        /\ \A p \in Requests :
              (d_req[p].pc = "done" /\ d_req[p].via = "cache") =>
                  d_req[p].result = RemoteListing(d_req[p].probed)

(* C30: within one DocumentsRepository instance a date causes at most one
   probe request and at most one full-listing request, whatever the outcome
   of the first call: every later call for the date returns the list the
   first call returned, issues no request and appends nothing to the error
   list. *)
C30_OneProbeAndOneFetchPerDate ==
    \A p \in Requests :
        /\ d_req[p].total_probes <= 1
        /\ d_req[p].total_full <= 1
        /\ d_req[p].calls >= 2 =>
              /\ d_req[p].pc = "done"
              /\ d_req[p].first # <<>>
              /\ d_req[p].result = d_req[p].first[1]
              /\ d_req[p].probes = 0 /\ d_req[p].full_requests = 0
              /\ Len(d_req[p].api_errors) = d_req[p].errors_at_call

\* after a first call that returned, every later call is served from memory
C30_AfterReturnedCall ==
    \A p \in Requests :
        (d_req[p].calls >= 2 /\ d_req[p].first # <<>>) =>
            /\ d_req[p].pc = "done" /\ d_req[p].via = "memory"
            /\ d_req[p].result = d_req[p].first[1]
            /\ d_req[p].total_probes <= 1 /\ d_req[p].total_full <= 1
            /\ Len(d_req[p].api_errors) = d_req[p].errors_at_call

(***************************************************************************)
(* XbrlExtractor: continuation chains                                      *)
(***************************************************************************)
\* the id attributes an element of the document may carry, by position; the
\* last element may repeat the first one's id
IdOptions(i) == IF i = 3 THEN {"", "c", "a"} ELSE IF i = 2 THEN {"", "b"} ELSE {"", "a"}

\* an identifier no element carries
MissingId == "zz"

\* the continuedAt attribute: absent, an element's id or a dangling reference
ContinuedAtOptions == {"", "a", "b", "c", MissingId}

\* XbrlExtractor._element_payload of the element at position i: empty, one
\* character, or the character after leading whitespace
PayloadOptions(i) ==
    {<<>>, <<<<"A", "B", "C">>[i]>>, <<" ", <<"A", "B", "C">>[i]>>}

\* the documents: three elements in document order
XbrlDocuments ==
    {<<e1, e2, e3>> :
        e1 \in [id : IdOptions(1), payload : PayloadOptions(1), continuedAt : ContinuedAtOptions],
        e2 \in [id : IdOptions(2), payload : PayloadOptions(2), continuedAt : ContinuedAtOptions],
        e3 \in [id : IdOptions(3), payload : PayloadOptions(3), continuedAt : ContinuedAtOptions]}

\* XbrlExtractor.__init__, lines 17-23: self._id_index.get(id), <<>> for None;
\* a later element with the same id replaces the earlier one
IdIndexGet(elems, id) ==
    IF \E i \in 1..Len(elems) : elems[i].id # "" /\ elems[i].id = id
    THEN <<CHOOSE i \in 1..Len(elems) :
              /\ elems[i].id = id
              /\ \A j \in 1..Len(elems) : elems[j].id = id => j <= i>>
    ELSE <<>>

\* every identifier that occurs in the document, as an id or as a reference
DistinctIdentifiers(elems) ==
    ({elems[i].id : i \in 1..Len(elems)} \cup {elems[i].continuedAt : i \in 1..Len(elems)}) \ {""}

\* "".join(chunks)
RECURSIVE Join(_)
Join(chunks) == IF chunks = <<>> THEN <<>> ELSE Head(chunks) \o Join(Tail(chunks))

\* line 60: the loop goes on for a reference not followed before
FollowsOn_NoVisitedCheck(continued_at, visited) == continued_at # ""
FollowsOn(continued_at, visited) == continued_at # "" /\ continued_at \notin visited

\* lines 53-59: the head's payload and its reference
XbrlInit ==
    /\ x_elems \in XbrlDocuments
    /\ x_head \in 1..3
    /\ x_chunks = IF x_elems[x_head].payload # <<>> THEN <<x_elems[x_head].payload>> ELSE <<>>
    /\ x_continued_at = x_elems[x_head].continuedAt
    /\ x_visited = {}
    /\ x_steps = 0
    /\ x_pc = "loop"
    /\ x_result = <<>>

XbrlIdle ==
    /\ x_elems = <<>>
    /\ x_head = 0
    /\ x_chunks = <<>>
    /\ x_continued_at = ""
    /\ x_visited = {}
    /\ x_steps = 0
    /\ x_pc = "done"
    /\ x_result = <<>>

\* lines 60-68: one iteration of the loop; a missing target ends it
FollowContinuation ==
    /\ x_pc = "loop"
    /\ FollowsOn(x_continued_at, x_visited)
    /\ x_visited' = x_visited \cup {x_continued_at}
    /\ x_steps' = x_steps + 1
    /\ \E cont \in {IdIndexGet(x_elems, x_continued_at)} :
          IF cont = <<>>
          THEN /\ x_pc' = "break"
               /\ UNCHANGED <<x_chunks, x_continued_at>>
          ELSE /\ x_chunks' = IF x_elems[cont[1]].payload # <<>>
                              THEN Append(x_chunks, x_elems[cont[1]].payload)
                              ELSE x_chunks
               /\ x_continued_at' = x_elems[cont[1]].continuedAt
               /\ x_pc' = "loop"
    /\ UNCHANGED <<x_elems, x_head, x_result>>

\* line 70: the loop is over, the chunks are joined and stripped
ReturnPayload ==
    /\ x_pc \in {"loop", "break"}
    /\ x_pc = "loop" => ~FollowsOn(x_continued_at, x_visited)
    /\ x_result' = Strip(Join(x_chunks))
    /\ x_pc' = "done"
    /\ UNCHANGED <<x_elems, x_head, x_chunks, x_continued_at, x_visited, x_steps>>

\* elements a, b, c form a chain that starts at the head and ends at c
IsChain3(a, b, c) ==
    /\ x_head = a
    /\ a # b /\ b # c /\ a # c
    /\ IdIndexGet(x_elems, x_elems[a].continuedAt) = <<b>>
    /\ IdIndexGet(x_elems, x_elems[b].continuedAt) = <<c>>
    /\ x_elems[c].continuedAt = ""

(* C5: for a chain A -> B -> C the resolved payload is the payloads of A, B
   and C concatenated in that order, with the whitespace at both ends of the
   whole removed; for every reference graph (cycles and references to missing
   identifiers included) the loop ends after at most as many iterations as
   the document has distinct identifiers. *)
C5_ChainInOrderAndBounded ==
    /\ x_steps <= Cardinality(DistinctIdentifiers(x_elems))
    /\ x_pc = "done" =>
          \A a, b, c \in 1..Len(x_elems) :
              IsChain3(a, b, c) =>
                  x_result = Strip(x_elems[a].payload \o x_elems[b].payload \o x_elems[c].payload)

C5_Witness ==
    /\ x_pc = "done"
    /\ x_steps = 2
    /\ \E a, b, c \in 1..Len(x_elems) :
          /\ IsChain3(a, b, c)
          /\ x_elems[a].payload # <<>> /\ x_elems[b].payload # <<>> /\ x_elems[c].payload # <<>>
          /\ Head(x_elems[a].payload) \in Whitespace
          /\ Len(x_result) = 4

(* C5 as stated: the resolved payload of a chain A -> B -> C is exactly the
   concatenation of the three payloads. *)
C5_ChainIsPlainConcatenation ==
    x_pc = "done" =>
        \A a, b, c \in 1..Len(x_elems) :
            IsChain3(a, b, c) =>
                x_result = x_elems[a].payload \o x_elems[b].payload \o x_elems[c].payload

\* the head a continues at b and b continues at a
IsCycle2(a, b) ==
    /\ x_head = a
    /\ a # b
    /\ IdIndexGet(x_elems, x_elems[a].continuedAt) = <<b>>
    /\ IdIndexGet(x_elems, x_elems[b].continuedAt) = <<a>>

(* C28: when a continuation chain is resolved the payload of each element
   is included at most once, for every reference graph; for a cycle that
   leads back to the starting element (A -> B -> A) the result is A's
   payload then B's, A's not repeated. *)
C28_PayloadIncludedAtMostOnce ==
    x_pc = "done" =>
        /\ \A i \in 1..Len(x_elems) :
              x_elems[i].payload # <<>> =>
                  Cardinality({k \in 1..Len(x_chunks) : x_chunks[k] = x_elems[i].payload}) <= 1
        /\ \A a, b \in 1..Len(x_elems) :
              IsCycle2(a, b) => x_result = Strip(x_elems[a].payload \o x_elems[b].payload)

(***************************************************************************)
(* SectionCatalog.select_sections                                          *)
(***************************************************************************)
\* the characters the regular expression of section_catalog._norm_text drops
Brackets == {"[", "]", "(", ")", "LB", "RB"}

\* section_catalog._norm_text
SectionNormText(text) ==
    SelectSeq(Remove(Remove(Remove(Remove(Strip(LowerAll(NfkcAll(text))),
                                          KabushikiGaisha), KabuParen), <<" ">>), <<"FW_SP">>),
              LAMBDA c : c \notin Brackets)

\* _DEFAULT_SECTION_IDS
DefaultSectionIds == <<<<"2", "-", "4">>, <<"2", "-", "3">>, <<"1", "-", "3">>>>

\* max_sections, the default of the parameter
MaxSections == 3

\* a cut of _DEFAULT_SECTIONS in the order of the source (1-3, 2-1, 2-2, 2-3,
\* 2-4, 3-1); titles, keywords and aliases are transliterated
DefaultCatalog ==
    <<[section_id |-> <<"1", "-", "3">>, title |-> <<"j", "i", "g", "y", "o">>,
     keywords |-> <<<<"b", "i", "z">>, <<"s", "e", "g">>>>, aliases |-> <<<<"b", "m">>>>],
      [section_id |-> <<"2", "-", "1">>, title |-> <<"h", "o", "s", "h", "i", "n">>,
     keywords |-> <<<<"h", "o", "s", "h", "i", "n">>, <<"k", "a", "d", "a", "i">>>>, aliases |-> <<<<"k", "e", "i", "e", "i", "k", "a", "d", "a", "i">>>>],
      [section_id |-> <<"2", "-", "2">>, title |-> <<"s", "u", "s">>,
     keywords |-> <<<<"s", "u", "s">>, <<"e", "s", "g">>>>, aliases |-> <<<<"E", "S", "G">>>>],
      [section_id |-> <<"2", "-", "3">>, title |-> <<"b", "i", "z", "r", "i", "s", "k">>,
     keywords |-> <<<<"r", "i", "s", "k">>, <<"k", "e", "n", "e", "n">>>>, aliases |-> <<<<"r", "i", "s", "k", "i", "n", "f", "o">>>>],
      [section_id |-> <<"2", "-", "4">>, title |-> <<"b", "u", "n", "s", "e", "k", "i">>,
     keywords |-> <<<<"c", "f">>, <<"m", "d", "a">>>>, aliases |-> <<<<"M", "D", "A">>>>],
      [section_id |-> <<"3", "-", "1">>, title |-> <<"s", "e", "t", "s", "u", "b", "i">>,
     keywords |-> <<<<"c", "a", "p", "e", "x">>>>, aliases |-> <<>>]>>

\* a catalog file that lists no section of chapter 2
CustomCatalog ==
    <<[section_id |-> <<"1", "-", "3">>, title |-> <<"j", "i", "g", "y", "o">>,
     keywords |-> <<<<"b", "i", "z">>, <<"s", "e", "g">>>>, aliases |-> <<<<"b", "m">>>>],
      [section_id |-> <<"3", "-", "1">>, title |-> <<"s", "e", "t", "s", "u", "b", "i">>,
     keywords |-> <<<<"c", "a", "p", "e", "x">>>>, aliases |-> <<>>]>>

CatalogUniverse == {DefaultCatalog, CustomCatalog}

\* question texts: small talk, one keyword of 2-3, keywords of 3-1 and 1-3, empty
QuestionUniverse == {<<"h", "i">>, <<"r", "i", "s", "k", "?">>, <<"c", "a", "p", "e", "x", " ", "b", "i", "z">>, <<>>}

\* section queries of the intent: an id, an alias in another case, a text that
\* matches nothing, a blank
SectionQueryUniverse == {<<"2", "-", "4">>, <<"E", "s", "g">>, <<"z", "z">>, <<" ">>}

MaxSectionQueries == 2

\* an intent that names more sections than max_sections: four queries that
\* match four different sections of the default catalog
ManySectionQueries == <<<<"2", "-", "4">>, <<"E", "s", "g">>, <<"1", "-", "3">>, <<"2", "-", "1">>>>

\* self._by_id.get(section_id): <<>> for None, the last section with the id
ById(catalog, section_id) ==
    IF \E i \in 1..Len(catalog) : catalog[i].section_id = section_id
    THEN <<CHOOSE i \in 1..Len(catalog) :
              /\ catalog[i].section_id = section_id
              /\ \A j \in 1..Len(catalog) : catalog[j].section_id = section_id => j <= i>>
    ELSE <<>>

\* lines 153-163: one variant of a section matches the normalized query
VariantMatches(normalized_query, normalized_variant) ==
    /\ normalized_variant # <<>>
    /\ \/ Contains(normalized_variant, normalized_query)
       \/ Contains(normalized_query, normalized_variant)

SectionMatches(section, normalized_query) ==
    \/ VariantMatches(normalized_query, SectionNormText(section.title))
    \/ VariantMatches(normalized_query, SectionNormText(section.section_id))
    \/ \E k \in 1..Len(section.aliases) :
          VariantMatches(normalized_query, SectionNormText(section.aliases[k]))

\* mutant of MatchSection: the query is looked up as an id only
MatchSection_IdOnly(catalog, query) ==
    IF SectionNormText(query) = <<>> THEN <<>> ELSE ById(catalog, query)

\* SectionCatalog._match_section: the position of the section, <<>> for None
MatchSection(catalog, query) ==
    IF SectionNormText(query) = <<>> THEN <<>>
    ELSE IF ById(catalog, query) # <<>> THEN ById(catalog, query)
    ELSE IF \E i \in 1..Len(catalog) : SectionMatches(catalog[i], SectionNormText(query))
    THEN <<CHOOSE i \in 1..Len(catalog) :
              /\ SectionMatches(catalog[i], SectionNormText(query))
              /\ \A j \in 1..(i - 1) : ~SectionMatches(catalog[j], SectionNormText(query))>>
    ELSE <<>>

\* lines 171-174: two points for every keyword found in the question
RECURSIVE KeywordScore(_, _)
KeywordScore(keywords, normalized_question) ==
    IF keywords = <<>> THEN 0
    ELSE (IF SectionNormText(Head(keywords)) # <<>>
             /\ Contains(normalized_question, SectionNormText(Head(keywords)))
          THEN 2 ELSE 0)
         + KeywordScore(Tail(keywords), normalized_question)

\* mutant of ChapterBonus: no point for chapter 2
ChapterBonus_None(section_id) == 0

\* lines 175-176: one more point for the sections of chapter 2
ChapterBonus(section_id) ==
    IF Len(section_id) >= 2 /\ SubSeq(section_id, 1, 2) = <<"2", "-">> THEN 1 ELSE 0

\* lines 170-177
Score(section, normalized_question) ==
    KeywordScore(section.keywords, normalized_question) + ChapterBonus(section.section_id)

\* line 178: sort(reverse=True) on (score, -index): the position that comes first
First(catalog, positions, normalized_question) ==
    CHOOSE i \in positions : \A j \in positions :
        \/ Score(catalog[i], normalized_question) > Score(catalog[j], normalized_question)
        \/ Score(catalog[i], normalized_question) = Score(catalog[j], normalized_question) /\ i <= j

RECURSIVE Sorted(_, _, _)
Sorted(catalog, positions, normalized_question) ==
    IF positions = {} THEN <<>>
    ELSE <<First(catalog, positions, normalized_question)>>
         \o Sorted(catalog, positions \ {First(catalog, positions, normalized_question)}, normalized_question)

\* SectionCatalog._rank_by_keywords: the positions with a positive score
RankByKeywords(catalog, question) ==
    Sorted(catalog,
           {i \in 1..Len(catalog) : Score(catalog[i], SectionNormText(question)) > 0},
           SectionNormText(question))

\* lines 122-128 and 131-138: append the ids not selected yet until
\* max_sections are selected
RECURSIVE FillUp(_, _, _)
FillUp(ids, selected, tag) ==
    IF ids = <<>> THEN selected
    ELSE IF \E k \in 1..Len(selected) : selected[k].section_id = Head(ids)
    THEN FillUp(Tail(ids), selected, tag)
    ELSE IF Len(selected) + 1 >= MaxSections
    THEN Append(selected, [section_id |-> Head(ids), reason |-> tag])
    ELSE FillUp(Tail(ids), Append(selected, [section_id |-> Head(ids), reason |-> tag]), tag)

\* no keyword of the catalog occurs in the question
NoKeywordOverlap(catalog, question) ==
    \A i \in 1..Len(catalog) : KeywordScore(catalog[i].keywords, SectionNormText(question)) = 0

SectionsInit ==
    /\ s_catalog \in CatalogUniverse
    /\ s_question \in QuestionUniverse
    /\ s_queries \in SeqsUpTo(SectionQueryUniverse, MaxSectionQueries) \cup {ManySectionQueries}
    /\ s_i = 0
    /\ s_selected = <<>>
    /\ s_unresolved = <<>>
    /\ s_pc = "queries"

SectionsIdle ==
    /\ s_catalog = <<>>
    /\ s_question = <<>>
    /\ s_queries = <<>>
    /\ s_i = 0
    /\ s_selected = <<>>
    /\ s_unresolved = <<>>
    /\ s_pc = "done"

\* lines 110-118: one section query of the intent
MatchQuery ==
    /\ s_pc = "queries"
    /\ s_i < Len(s_queries)
    /\ s_i' = s_i + 1
    /\ \E section \in {MatchSection(s_catalog, s_queries[s_i + 1])} :
          IF section = <<>>
          THEN /\ s_unresolved' = Append(s_unresolved, s_queries[s_i + 1])
               /\ UNCHANGED s_selected
          ELSE /\ s_selected' = IF \E k \in 1..Len(s_selected) :
                                      s_selected[k].section_id = s_catalog[section[1]].section_id
                                THEN s_selected
                                ELSE Append(s_selected, [section_id |-> s_catalog[section[1]].section_id,
                                                         reason |-> <<"llm", s_queries[s_i + 1]>>])
               /\ UNCHANGED s_unresolved
    /\ UNCHANGED <<s_catalog, s_question, s_queries, s_pc>>

\* lines 120-128: the sections ranked by keywords fill the selection
FillByKeywords ==
    /\ s_pc = "queries"
    /\ s_i = Len(s_queries)
    /\ s_selected' = IF Len(s_selected) < MaxSections
                     THEN FillUp([k \in 1..Len(RankByKeywords(s_catalog, s_question)) |->
                                     s_catalog[RankByKeywords(s_catalog, s_question)[k]].section_id],
                                 s_selected, <<"keyword">>)
                     ELSE s_selected
    /\ s_pc' = "defaults"
    /\ UNCHANGED <<s_catalog, s_question, s_queries, s_i, s_unresolved>>

\* lines 130-141: the default ids when nothing is selected, and the return
DefaultsAndReturn ==
    /\ s_pc = "defaults"
    /\ s_selected' = IF s_selected = <<>>
                     THEN FillUp(SelectSeq(DefaultSectionIds, LAMBDA id : ById(s_catalog, id) # <<>>),
                                 <<>>, <<"default">>)
                     ELSE s_selected
    /\ s_pc' = "done"
    /\ UNCHANGED <<s_catalog, s_question, s_queries, s_i, s_unresolved>>

(* C6: select_sections called with no explicit section query and a question
   that contains none of the catalog's keywords returns exactly the default
   section ids 2-4, 2-3, 1-3 (for a catalog that lists them), each tagged as
   default. *)
C6_NoOverlapGivesDefaults ==
    ( /\ s_pc = "done"
      /\ s_queries = <<>>
      /\ NoKeywordOverlap(s_catalog, s_question)
      /\ \A k \in 1..Len(DefaultSectionIds) : ById(s_catalog, DefaultSectionIds[k]) # <<>> )
    => s_selected = [k \in 1..Len(DefaultSectionIds) |->
                        [section_id |-> DefaultSectionIds[k], reason |-> <<"default">>]]

(* C17: select_sections never returns more than max_sections sections and
   never the same section twice: explicit matches use up the max_sections
   slots and keyword-ranked sections fill only what is left. *)
C17_AtMostMaxSections ==
    s_pc = "done" =>
        /\ Len(s_selected) <= MaxSections
        /\ \A a, b \in 1..Len(s_selected) :
              a # b => s_selected[a].section_id # s_selected[b].section_id

\* the stated score of the section at position i: 2 per keyword the
\* normalized question contains, plus 1 for a section of the "2-" group
StatedScore(i) ==
    2 * Cardinality({k \in 1..Len(s_catalog[i].keywords) :
                        /\ SectionNormText(s_catalog[i].keywords[k]) # <<>>
                        /\ Contains(SectionNormText(s_question), SectionNormText(s_catalog[i].keywords[k]))})
    + (IF Len(s_catalog[i].section_id) >= 2 /\ s_catalog[i].section_id[1] = "2"
          /\ s_catalog[i].section_id[2] = "-" THEN 1 ELSE 0)

\* the section at position i is taken before the one at position j
TakenBefore(i, j) ==
    StatedScore(i) > StatedScore(j) \/ (StatedScore(i) = StatedScore(j) /\ i < j)

\* the catalog position of an entry of the selection
PositionOf(entry) == CHOOSE i \in 1..Len(s_catalog) : s_catalog[i].section_id = entry.section_id

(* C18: the slots left after the explicit matches are filled in descending
   keyword score (2 per keyword the normalized question contains, plus 1
   for a section of the "2-" group), sections of equal score in catalog
   order, and no section of score 0 is selected by this step; a section
   with a positive score is left out only when the slots are used up by
   sections taken before it. *)
C18_KeywordFillOrder ==
    s_pc \in {"defaults", "done"} =>
        /\ \A a \in 1..Len(s_selected) : s_selected[a].reason = <<"keyword">> =>
              /\ StatedScore(PositionOf(s_selected[a])) > 0
              /\ a <= MaxSections
              /\ \A b \in (a + 1)..Len(s_selected) :
                    /\ s_selected[b].reason = <<"keyword">>
                    /\ TakenBefore(PositionOf(s_selected[a]), PositionOf(s_selected[b]))
        /\ \A i \in 1..Len(s_catalog) :
              (StatedScore(i) > 0 /\ \A a \in 1..Len(s_selected) : PositionOf(s_selected[a]) # i) =>
                  /\ Len(s_selected) >= MaxSections
                  /\ \A a \in 1..Len(s_selected) : s_selected[a].reason = <<"keyword">> =>
                        TakenBefore(PositionOf(s_selected[a]), i)

\* select_sections returned an explicit match followed by two keyword
\* selections of different score, while a section of the "2-" group with a
\* lower score found no slot
C18_Witness ==
    /\ s_pc = "done"
    /\ Len(s_selected) = MaxSections
    /\ s_selected[1].reason[1] = "llm"
    /\ s_selected[2].reason = <<"keyword">> /\ s_selected[3].reason = <<"keyword">>
    /\ StatedScore(PositionOf(s_selected[2])) > StatedScore(PositionOf(s_selected[3]))
    /\ \E i \in 1..Len(s_catalog) :
          /\ StatedScore(i) > 0
          /\ \A a \in 1..Len(s_selected) : PositionOf(s_selected[a]) # i

\* the stated matching of a query against the section at position i:
\* containment in either direction between the normalized query and the
\* normalized title, id or an alias
StatedVariants(i) ==
    {SectionNormText(s_catalog[i].title), SectionNormText(s_catalog[i].section_id)}
    \cup {SectionNormText(s_catalog[i].aliases[k]) : k \in 1..Len(s_catalog[i].aliases)}

StatedContainment(query, i) ==
    /\ SectionNormText(query) # <<>>
    /\ \E v \in StatedVariants(i) :
          v # <<>> /\ (Contains(v, SectionNormText(query)) \/ Contains(SectionNormText(query), v))

\* the id of the section a query matches, <<>> when it matches none: the
\* section with exactly this id, else the first section in catalog order
\* that matches by containment
StatedMatch(query) ==
    IF SectionNormText(query) # <<>> /\ \E i \in 1..Len(s_catalog) : s_catalog[i].section_id = query
    THEN <<query>>
    ELSE IF \E i \in 1..Len(s_catalog) : StatedContainment(query, i)
    THEN <<s_catalog[CHOOSE i \in 1..Len(s_catalog) :
                        /\ StatedContainment(query, i)
                        /\ \A j \in 1..(i - 1) : ~StatedContainment(query, j)].section_id>>
    ELSE <<>>

\* the number of entries of the selection that come from explicit queries
ExplicitCount == Cardinality({a \in 1..Len(s_selected) : s_selected[a].reason[1] = "llm"})

(* C19: select_sections partitions the explicit queries: the queries that
   match no section make up the unresolved list, in order, and contribute
   no section; the matched section of every other query is selected, the
   explicit selections come first, in the order of the first query that
   matched each, and the reason of each names that first query. *)
C19_ExplicitQueriesPartitioned ==
    s_pc = "done" =>
        /\ s_unresolved = SelectSeq(s_queries, LAMBDA q : StatedMatch(q) = <<>>)
        /\ \A a \in 1..Len(s_selected) :
              (s_selected[a].reason[1] = "llm") <=> (a <= ExplicitCount)
        /\ \A n \in 1..Len(s_queries) : StatedMatch(s_queries[n]) # <<>> =>
              \E a \in 1..ExplicitCount :
                  /\ s_selected[a].section_id = StatedMatch(s_queries[n])[1]
                  /\ \E m \in 1..n :
                        /\ s_selected[a].reason = <<"llm", s_queries[m]>>
                        /\ StatedMatch(s_queries[m]) = StatedMatch(s_queries[n])
                        /\ \A l \in 1..(m - 1) : StatedMatch(s_queries[l]) # StatedMatch(s_queries[n])
        /\ \A a, b \in 1..ExplicitCount : a < b =>
              \E m, n \in 1..Len(s_queries) :
                  /\ m < n
                  /\ s_selected[a].reason = <<"llm", s_queries[m]>>
                  /\ s_selected[b].reason = <<"llm", s_queries[n]>>
                  /\ StatedMatch(s_queries[m]) = <<s_selected[a].section_id>>
                  /\ StatedMatch(s_queries[n]) = <<s_selected[b].section_id>>

\* select_sections returned for an unmatched query followed by a matched
\* one, with a keyword selection behind the explicit one
C19_Witness ==
    /\ s_pc = "done"
    /\ Len(s_queries) = 2
    /\ s_unresolved = <<s_queries[1]>>
    /\ SectionNormText(s_queries[1]) # <<>>
    /\ ExplicitCount = 1
    /\ s_selected[1].reason = <<"llm", s_queries[2]>>
    /\ s_selected[1].section_id # s_queries[2]
    /\ Len(s_selected) > 1 /\ s_selected[2].reason = <<"keyword">>

(***************************************************************************)
(* IntentParser.parse                                                      *)
(***************************************************************************)
\* the characters that are no word characters for \b
NonWordChars == Whitespace \cup {",", "-", ".", "!", "?", "(", ")", "[", "]"}

IsWordAt(s, k) == k >= 1 /\ k <= Len(s) /\ s[k] \notin NonWordChars

\* \b between the characters k and k + 1
WordBoundary(s, k) == IsWordAt(s, k) # IsWordAt(s, k + 1)

IsDigitAt(s, k) == k >= 1 /\ k <= Len(s) /\ s[k] \in Digits

\* the length of the match of \b\d-\d(?:-\d)?\b that starts at k, 0 for none
SectionIdMatch(s, k) ==
    IF ~(WordBoundary(s, k - 1) /\ IsDigitAt(s, k) /\ k + 2 <= Len(s)
         /\ s[k + 1] = "-" /\ IsDigitAt(s, k + 2)) THEN 0
    ELSE IF k + 4 <= Len(s) /\ s[k + 3] = "-" /\ IsDigitAt(s, k + 4) /\ WordBoundary(s, k + 4) THEN 5
    ELSE IF WordBoundary(s, k + 2) THEN 3
    ELSE 0

\* re.findall(r"\b\d-\d(?:-\d)?\b", text) from position k on
RECURSIVE FindSectionIds(_, _)
FindSectionIds(s, k) ==
    IF k > Len(s) THEN <<>>
    ELSE IF SectionIdMatch(s, k) > 0
    THEN <<SubSeq(s, k, k + SectionIdMatch(s, k) - 1)>> \o FindSectionIds(s, k + SectionIdMatch(s, k))
    ELSE FindSectionIds(s, k + 1)

\* re.findall(r"\b\d\b", text) from position k on
RECURSIVE FindSingleDigits(_, _)
FindSingleDigits(s, k) ==
    IF k > Len(s) THEN <<>>
    ELSE IF IsDigitAt(s, k) /\ WordBoundary(s, k - 1) /\ WordBoundary(s, k)
    THEN <<<<s[k]>>>> \o FindSingleDigits(s, k + 1)
    ELSE FindSingleDigits(s, k + 1)

\* IntentParser._extract_section_tokens; the section titles of lines 236-238
\* use characters no text of TextUniverse contains
ExtractSectionTokens(text) == FindSectionIds(text, 1) \o FindSingleDigits(text, 1)

\* re.findall(r"E\d{5}", text, flags=re.IGNORECASE), each match upper-cased
RECURSIVE FindEdinetCodes(_)
FindEdinetCodes(s) ==
    IF Len(s) < 6 THEN <<>>
    ELSE IF s[1] \in {"E", "e"} /\ \A k \in 2..6 : s[k] \in Digits
    THEN <<UpperAll(SubSeq(s, 1, 6))>> \o FindEdinetCodes(SubSeq(s, 7, Len(s)))
    ELSE FindEdinetCodes(Tail(s))

\* re.split on the separators of line 253 that TextUniverse contains: the
\* comma and the newline
RECURSIVE SplitParts(_, _)
SplitParts(s, part) ==
    IF s = <<>> THEN <<part>>
    ELSE IF Head(s) \in {",", "NL"} THEN <<part>> \o SplitParts(Tail(s), <<>>)
    ELSE SplitParts(Tail(s), Append(part, Head(s)))

\* the characters of the second strip of _clean_company_token
CleanChars == {".", "!", "?", "(", ")", "[", "]"}

RECURSIVE StripChars(_)
StripChars(s) ==
    IF s # <<>> /\ Head(s) \in CleanChars THEN StripChars(Tail(s))
    ELSE IF s # <<>> /\ s[Len(s)] \in CleanChars THEN StripChars(SubSeq(s, 1, Len(s) - 1))
    ELSE s

\* the longest company token, line 304
MaxTokenLen == 80

\* IntentParser._clean_company_token, <<>> for None; the prefixes of lines
\* 302-303 use characters no text of TextUniverse contains
CleanCompanyToken(text) ==
    IF Len(Strip(StripChars(Strip(text)))) <= 1 \/ Len(Strip(StripChars(Strip(text)))) > MaxTokenLen
    THEN <<>>
    ELSE Strip(StripChars(Strip(text)))

\* IntentParser._trim_non_company_suffix: no suffix of lines 293-297 occurs
\* in a text of TextUniverse, the strip remains
TrimNonCompanySuffix(text) == Strip(text)

\* the stopwords of lines 254-270 in Latin letters
Stopwords == {<<"e", "d", "i", "n", "e", "t">>, <<"a", "p", "i">>, <<"x", "b", "r", "l">>}

\* append the items that are not in tokens yet
RECURSIVE AppendNew(_, _)
AppendNew(tokens, items) ==
    IF items = <<>> THEN tokens
    ELSE IF Head(items) \in Range(tokens) THEN AppendNew(tokens, Tail(items))
    ELSE AppendNew(Append(tokens, Head(items)), Tail(items))

\* lines 272-279: the cleaned parts that are no stopword
RECURSIVE PartTokens(_)
PartTokens(parts) ==
    IF parts = <<>> THEN <<>>
    ELSE IF CleanCompanyToken(TrimNonCompanySuffix(Head(parts))) = <<>> THEN PartTokens(Tail(parts))
    ELSE IF NormText(CleanCompanyToken(TrimNonCompanySuffix(Head(parts)))) \in Stopwords
    THEN PartTokens(Tail(parts))
    ELSE <<CleanCompanyToken(TrimNonCompanySuffix(Head(parts)))>> \o PartTokens(Tail(parts))

\* IntentParser._extract_company_tokens; the securities-code pattern of line
\* 249 and the company suffixes of line 282 match no text of TextUniverse
ExtractCompanyTokens(text) ==
    AppendNew(AppendNew(<<>>, FindEdinetCodes(text)), PartTokens(SplitParts(text, <<>>)))

\* "\n".join(parts)
RECURSIVE JoinLines(_)
JoinLines(parts) ==
    IF parts = <<>> THEN <<>>
    ELSE IF Len(parts) = 1 THEN Head(parts)
    ELSE Head(parts) \o <<"NL">> \o JoinLines(Tail(parts))

\* history[-8:]
HistoryWindow == 8

\* lines 60-64 and 140-144: the contents of the recent user turns
RecentUser(history) ==
    LET recent == SubSeq(history, IF Len(history) > HistoryWindow THEN Len(history) - HistoryWindow + 1 ELSE 1,
                         Len(history))
        users == SelectSeq(recent, LAMBDA item : item.role = "user" /\ item.content # <<>>)
    IN  [k \in 1..Len(users) |-> users[k].content]

\* IntentParser._parse_by_rules, lines 138-164 (fiscal_year and
\* report_periods are left out of the intent)
ParseByRules(user_text, history) ==
    [companies |-> ExtractCompanyTokens(Strip(JoinLines(RecentUser(history)) \o <<"NL">> \o user_text)),
     sections |-> ExtractSectionTokens(user_text),
     needs_clarification |-> ExtractCompanyTokens(Strip(JoinLines(RecentUser(history)) \o <<"NL">> \o user_text)) = <<>>,
     clarification_reason |-> IF ExtractCompanyTokens(Strip(JoinLines(RecentUser(history)) \o <<"NL">> \o user_text)) = <<>>
                              THEN "no_company" ELSE "",
     source |-> "rule"]

\* a JSON value of the model's answer under the key "companies" or
\* "sections": the key is absent, or the value is a list of strings, a
\* string, a number or null
ListValues == {<<>>, <<<<"a", "b">>>>, <<<<" ">>>>}
JsonValues ==
    {[type |-> "absent", value |-> <<>>], [type |-> "null", value |-> <<>>],
     [type |-> "number", value |-> <<>>], [type |-> "string", value |-> <<"a", "b">>]}
    \cup {[type |-> "list", value |-> v] : v \in ListValues}

\* lines 108 and 119: iterating the value raises TypeError for a number and
\* for null
Iterable(json) == json.type \in {"absent", "list", "string"}

\* the items the comprehension of lines 108 and 119 sees: the default [],
\* the list's items, or the string's characters
Items(json) ==
    IF json.type = "string" THEN [k \in 1..Len(json.value) |-> <<json.value[k]>>]
    ELSE json.value

\* [str(item).strip() for item in ... if str(item).strip()]
StrippedItems(json) == SelectSeq([k \in 1..Len(Items(json)) |-> Strip(Items(json)[k])], LAMBDA item : item # <<>>)

\* the answers of run_json_prompt and what extract_json_object makes of
\* them: an exception, an empty text, a text that holds no JSON, JSON that is
\* no object, or a JSON object (alone or embedded in prose)
LlmAnswers ==
    {[kind |-> k, companies |-> [type |-> "absent", value |-> <<>>],
      sections |-> [type |-> "absent", value |-> <<>>], needs_clarification |-> "absent",
      clarification_reason |-> ""] : k \in {"exception", "empty", "not_json", "not_object"}}
    \cup [kind : {"object", "embedded_object"}, companies : JsonValues, sections : JsonValues,
          needs_clarification : {"absent", "true", "false"}, clarification_reason : {"", "given"}]

\* extract_json_object returns a dict
IsJsonObject(answer) == answer.kind \in {"object", "embedded_object"}

\* lines 123-126: the companies of the intent from the model's answer
LlmCompanies(answer, user_text, history) ==
    IF StrippedItems(answer.companies) # <<>> THEN StrippedItems(answer.companies)
    ELSE ExtractCompanyTokens(user_text \o <<"NL">> \o JoinLines(RecentUser(history)))

\* lines 108-136: the intent built from the object the model answered
IntentFromObject(answer, user_text, history) ==
    [companies |-> LlmCompanies(answer, user_text, history),
     sections |-> StrippedItems(answer.sections),
     needs_clarification |-> answer.needs_clarification = "true",
     clarification_reason |->
        IF StrippedItems(answer.companies) = <<>> /\ LlmCompanies(answer, user_text, history) # <<>>
           /\ answer.clarification_reason = ""
        THEN "rule_extraction_used" ELSE answer.clarification_reason,
     source |-> "llm"]

\* user texts: empty, one letter, a stopword, a name, two names, a registry
\* code, a name with a section id
TextUniverse == {<<>>, <<"a">>, <<"a", "p", "i">>, <<"a", "b">>, <<"a", "b", ",", "c", "d">>, <<"e", "0", "0", "0", "0", "1">>, <<"a", "b", " ", "2", "-", "3">>}

HistoryUniverse ==
    {<<>>, <<[role |-> "user", content |-> <<"c", "d">>]>>, <<[role |-> "assistant", content |-> <<"c", "d">>]>>}

NoAnswer ==
    [kind |-> "none", companies |-> [type |-> "absent", value |-> <<>>],
     sections |-> [type |-> "absent", value |-> <<>>], needs_clarification |-> "absent",
     clarification_reason |-> ""]

NoIntent ==
    [companies |-> <<>>, sections |-> <<>>, needs_clarification |-> FALSE,
     clarification_reason |-> "", source |-> "none"]

IntentInit ==
    /\ i_user_text \in TextUniverse
    /\ i_history \in HistoryUniverse
    /\ i_model \in BOOLEAN
    /\ i_answer = NoAnswer
    /\ i_intent = NoIntent
    /\ i_pc = "start"

IntentIdle ==
    /\ i_user_text = <<>>
    /\ i_history = <<>>
    /\ i_model = FALSE
    /\ i_answer = NoAnswer
    /\ i_intent = NoIntent
    /\ i_pc = "done"

\* lines 36 and 55-100: parse up to the await of the model; without a model
\* the rules answer at once
StartParse ==
    /\ i_pc = "start"
    /\ IF i_model
       THEN i_pc' = "llm" /\ UNCHANGED i_intent
       ELSE i_pc' = "done" /\ i_intent' = ParseByRules(i_user_text, i_history)
    /\ UNCHANGED <<i_user_text, i_history, i_model, i_answer>>

\* lines 94-136 and 42-45: the model's answer arrives
LlmResponse ==
    /\ i_pc = "llm"
    /\ \E answer \in LlmAnswers :
          /\ i_answer' = answer
          /\ IF ~IsJsonObject(answer)
             THEN i_pc' = "done" /\ i_intent' = ParseByRules(i_user_text, i_history)
             ELSE IF ~Iterable(answer.companies) \/ ~Iterable(answer.sections)
             THEN i_pc' = "raised" /\ UNCHANGED i_intent
             ELSE i_pc' = "done" /\ i_intent' = IntentFromObject(answer, i_user_text, i_history)
    /\ UNCHANGED <<i_user_text, i_history, i_model>>

\* the model's path failed: no model, an exception, no JSON object, or an
\* object whose "companies" or "sections" is present and no list
LlmPathFailed ==
    \/ ~i_model
    \/ i_answer.kind \in {"exception", "empty", "not_json", "not_object"}
    \/ i_answer.companies.type \in {"null", "number", "string"}
    \/ i_answer.sections.type \in {"null", "number", "string"}

(* C8: IntentParser.parse falls back entirely to rule extraction on any
   failure of the language-model path (no model, transport error, output that
   is no JSON object, an object whose 'companies' or 'sections' is not a
   list): it raises nothing and returns the rules' intent, source 'rule'. *)
C8_FailedLlmPathFallsBackToRules ==
    (i_pc \in {"done", "raised"} /\ LlmPathFailed)
    => (i_pc = "done" /\ i_intent = ParseByRules(i_user_text, i_history))

(* C9: every ParsedIntent parse returns with an empty organization list has
   needs_clarification = true, on the language-model path and on the rule
   path. *)
C9_NoCompanyNeedsClarification ==
    (i_pc = "done" /\ i_intent.source # "none" /\ i_intent.companies = <<>>)
    => i_intent.needs_clarification

(***************************************************************************)
(* DocumentsRepository.find_latest_annual_filing                           *)
(***************************************************************************)
\* DOC_TYPE_CODES
DocTypeCodes == {"120", "130"}

\* line 87: the shortest and the longest scan, in days
MinLookback == 7
MaxLookback == 3650

\* line 87: max_days
MaxDays(lookback_days) ==
    IF (IF MaxLookback < lookback_days THEN MaxLookback ELSE lookback_days) < MinLookback
    THEN MinLookback
    ELSE (IF MaxLookback < lookback_days THEN MaxLookback ELSE lookback_days)

\* the day number of today; the day of offset k is Today - k
Today == 5000

DigitChars == <<"0", "1", "2", "3", "4", "5", "6", "7", "8", "9">>

\* a day number as four characters
DateText(day) ==
    <<DigitChars[((day \div 1000) % 10) + 1], DigitChars[((day \div 100) % 10) + 1],
      DigitChars[((day \div 10) % 10) + 1], DigitChars[(day % 10) + 1]>>

\* the code point order of the characters of a timestamp
CharRank(c) ==
    CASE c = " " -> 0
      [] c = "T" -> 11
      [] OTHER -> CHOOSE k \in 1..10 : DigitChars[k] = c

\* a < b for Python strings
RECURSIVE StrLess(_, _)
StrLess(a, b) ==
    IF b = <<>> THEN FALSE
    ELSE IF a = <<>> THEN TRUE
    ELSE IF Head(a) # Head(b) THEN CharRank(Head(a)) < CharRank(Head(b))
    ELSE StrLess(Tail(a), Tail(b))

\* a document of a daily listing as the remote serves it: submitDateTime is
\* the day and the hour of the submission, periodEnd is <<>> or the year
\* and the month of a well-formed date
Doc(offset, k, type, code, period_end, hour) ==
    [docID |-> <<offset, k>>, docTypeCode |-> type, edinetCode |-> code, periodEnd |-> period_end,
     submitDateTime |-> DateText(Today - offset) \o <<" ">> \o hour,
     submitDate |-> <<>>, submitTime |-> <<>>]

Morning == <<"0", "9">>
Afternoon == <<"1", "5">>

\* the listings a day can have, besides the empty one: an annual report of
\* the requested company; an amended annual report and a quarterly report;
\* another company's annual report followed by two annual reports of the
\* requested company for different periods
ListingOptions(offset) ==
    {<<Doc(offset, 1, "120", E1, <<[year |-> 2025, month |-> 3]>>, Morning)>>,
     <<Doc(offset, 1, "130", E1, <<[year |-> 2024, month |-> 3]>>, Afternoon),
       Doc(offset, 2, "140", E1, <<[year |-> 2025, month |-> 3]>>, Afternoon)>>,
     <<Doc(offset, 1, "120", E2, <<[year |-> 2025, month |-> 3]>>, Afternoon),
       Doc(offset, 2, "120", E1, <<>>, Morning),
       Doc(offset, 3, "120", E1, <<[year |-> 2024, month |-> 12]>>, Afternoon)>>}

\* the offsets at which the model places filings: today, the first day
\* outside the shortest scan, the last day inside and the first day outside
\* the longest scan
FilingOffsets == {0, MinLookback, MaxLookback - 1, MaxLookback}

\* what get_documents_for_date returns for each day: at most two days list
\* anything
ListingWorlds ==
    {[o \in FilingOffsets |-> <<>>]}
    \cup {[o \in FilingOffsets |-> IF o = a THEN la ELSE <<>>] :
            a \in FilingOffsets, la \in UNION {ListingOptions(o) : o \in FilingOffsets}}
    \cup {[o \in FilingOffsets |-> IF o = a THEN la ELSE IF o = b THEN lb ELSE <<>>] :
            a \in FilingOffsets, b \in FilingOffsets,
            la \in UNION {ListingOptions(o) : o \in FilingOffsets},
            lb \in UNION {ListingOptions(o) : o \in FilingOffsets}}

\* docs of line 90 for the day of an offset
DocsOfDay(world, offset) == IF offset \in FilingOffsets THEN world[offset] ELSE <<>>

\* the listings whose documents carry the day they are listed on
WellDated(world) ==
    \A o \in FilingOffsets : \A k \in 1..Len(world[o]) : world[o][k].docID[1] = o

\* DocumentsRepository._matches_period_end
MatchesPeriodEnd(period_end, year, month) ==
    period_end # <<>> /\ period_end[1].year = year /\ period_end[1].month = month

\* DocumentsRepository._matches_fiscal_year
MatchesFiscalYear_AnyMonth(period_end, fiscal_year) ==
    /\ period_end # <<>>
    /\ fiscal_year \in {period_end[1].year, period_end[1].year - 1}
MatchesFiscalYear(period_end, fiscal_year) ==
    /\ period_end # <<>>
    /\ fiscal_year \in {period_end[1].year,
                        IF period_end[1].month <= 6 THEN period_end[1].year - 1 ELSE period_end[1].year}

\* lines 92-101: the document becomes a candidate
IsCandidate(doc, edinet_code, fiscal_year, period) ==
    /\ doc.docTypeCode \in DocTypeCodes
    /\ doc.edinetCode = edinet_code
    /\ period # <<>> => MatchesPeriodEnd(doc.periodEnd, period[1].year, period[1].month)
    /\ fiscal_year # <<>> => MatchesFiscalYear(doc.periodEnd, fiscal_year[1])

\* DocumentsRepository._doc_sort_key
DocSortKey(doc) ==
    IF doc.submitDateTime # <<>> THEN doc.submitDateTime
    ELSE doc.submitDate \o <<"T">> \o doc.submitTime

\* line 107: a sorts before b in sort(key=..., reverse=True)
SortsBefore_Ascending(a, b) == StrLess(DocSortKey(a), DocSortKey(b))
SortsBefore(a, b) == StrLess(DocSortKey(b), DocSortKey(a))

\* lines 107-108: candidates[0] after the stable sort
Top(candidates) ==
    candidates[CHOOSE i \in 1..Len(candidates) :
                  /\ \A j \in 1..Len(candidates) : ~SortsBefore(candidates[j], candidates[i])
                  /\ \A j \in 1..(i - 1) : SortsBefore(candidates[i], candidates[j])]

\* lines 109-115 (filer_name is left out)
FilingMatch(top) ==
    [doc_id |-> top.docID, doc_type_code |-> top.docTypeCode,
     submit_datetime |-> IF top.submitDateTime # <<>> THEN top.submitDateTime ELSE top.submitDate,
     period_end |-> top.periodEnd]

\* lookback_days as the callers pass it
LookbackUniverse == {3, 8, 4000}

FilingInit ==
    /\ f_world \in {w \in ListingWorlds : WellDated(w)}
    /\ f_lookback \in LookbackUniverse
    /\ \E filter \in {<<<<>>, <<>>>>, <<<<2024>>, <<>>>>, <<<<2023>>, <<>>>>,
                       <<<<>>, <<[year |-> 2025, month |-> 3]>>>>,
                       <<<<2023>>, <<[year |-> 2025, month |-> 3]>>>>} :
          f_fiscal_year = filter[1] /\ f_period = filter[2]
    /\ f_offset = 0
    /\ f_candidates = <<>>
    /\ f_result = <<>>
    /\ f_pc = "scan"

FilingIdle ==
    /\ f_world = <<>>
    /\ f_lookback = 0
    /\ f_fiscal_year = <<>>
    /\ f_period = <<>>
    /\ f_offset = 0
    /\ f_candidates = <<>>
    /\ f_result = <<>>
    /\ f_pc = "done"

\* lines 88-102: one day of the scan
ScanDay ==
    /\ f_pc = "scan"
    /\ f_offset < MaxDays(f_lookback)
    /\ f_candidates' = f_candidates \o
          SelectSeq(DocsOfDay(f_world, f_offset), LAMBDA doc : IsCandidate(doc, E1, f_fiscal_year, f_period))
    /\ f_offset' = f_offset + 1
    /\ UNCHANGED <<f_world, f_lookback, f_fiscal_year, f_period, f_result, f_pc>>

\* lines 104-115: the scan is over
ReturnFiling ==
    /\ f_pc = "scan"
    /\ f_offset = MaxDays(f_lookback)
    /\ f_result' = IF f_candidates = <<>> THEN <<>> ELSE <<FilingMatch(Top(f_candidates))>>
    /\ f_pc' = "done"
    /\ UNCHANGED <<f_world, f_lookback, f_fiscal_year, f_period, f_offset, f_candidates>>

\* the hour a timestamp names, counted from day 0
Chronological(timestamp) ==
    LET v(k) == CharRank(timestamp[k]) - 1
    IN  ((v(1) * 1000 + v(2) * 100 + v(3) * 10 + v(4)) * 24) + v(6) * 10 + v(7)

\* the number of days the claim names: lookback_days clamped to 7..3650
ClaimedDays == IF f_lookback < 7 THEN 7 ELSE IF f_lookback > 3650 THEN 3650 ELSE f_lookback

\* the documents of the scanned days that are annual reports of the
\* requested company and pass the period filters
Eligible ==
    {doc \in UNION {Range(f_world[o]) : o \in {o \in FilingOffsets : o < ClaimedDays}} :
        /\ doc.docTypeCode \in {"120", "130"}
        /\ doc.edinetCode = E1
        /\ f_period # <<>> => (doc.periodEnd # <<>> /\ doc.periodEnd[1] = f_period[1])
        /\ f_fiscal_year # <<>> =>
              (doc.periodEnd # <<>> /\
               \/ doc.periodEnd[1].year = f_fiscal_year[1]
               \/ doc.periodEnd[1].month <= 6 /\ doc.periodEnd[1].year - 1 = f_fiscal_year[1])}

(* C10: find_latest_annual_filing scans the clamp(lookbackDays, 7, 3650)
   most recent days and, among the documents listed there that are annual
   reports of the requested company and pass the period filters, returns one
   whose submission timestamp is the latest; it returns no match exactly
   when there is no such document. *)
C10_LatestAnnualFiling ==
    f_pc = "done" =>
        /\ f_offset = ClaimedDays
        /\ f_result = <<>> <=> Eligible = {}
        /\ f_result # <<>> =>
              \E doc \in Eligible :
                  /\ f_result[1].doc_id = doc.docID
                  /\ f_result[1].submit_datetime = doc.submitDateTime
                  /\ \A other \in Eligible :
                        Chronological(other.submitDateTime) <= Chronological(doc.submitDateTime)

C10_Witness ==
    /\ f_pc = "done"
    /\ f_lookback > 3650
    /\ f_result # <<>>
    /\ f_result[1].doc_id[1] = 0
    /\ \E a, b \in Eligible :
          /\ a.docID[1] = 0 /\ b.docID[1] = 3649
          /\ Chronological(b.submitDateTime) < Chronological(a.submitDateTime)

(* C11: when a period-end year and month are both given, a document of the
   scanned days that is an annual report of the requested company is kept
   as a candidate iff its period end has exactly that year and month,
   whatever fiscal year is passed along: the fiscal-year match prunes only
   when no period end is given. *)
C11_PeriodEndOverridesFiscalYear ==
    (f_pc = "done" /\ f_period # <<>>) =>
        \A o \in {o \in FilingOffsets : o < f_offset} : \A doc \in Range(f_world[o]) :
            (doc.docTypeCode \in {"120", "130"} /\ doc.edinetCode = E1) =>
                (doc \in Range(f_candidates) <=>
                    (doc.periodEnd # <<>> /\ doc.periodEnd[1] = f_period[1]))

\* the annual reports of the requested company on the days scanned
ScannedAnnualReports ==
    {doc \in UNION {Range(f_world[o]) : o \in {o \in FilingOffsets : o < f_offset}} :
        doc.docTypeCode \in {"120", "130"} /\ doc.edinetCode = E1}

(* C23: with only a fiscal year F given, an annual report of the company
   whose period end is year Y, month M is kept iff F = Y, or M <= 6 and
   F = Y - 1; a document whose period end is missing or not a date is pruned
   whenever a fiscal-year or a period-end filter is given. *)
C23_FiscalYearFilter ==
    f_pc = "done" =>
        \A doc \in ScannedAnnualReports :
            /\ (f_fiscal_year # <<>> /\ f_period = <<>> /\ doc.periodEnd # <<>>) =>
                  (doc \in Range(f_candidates) <=>
                      \/ f_fiscal_year[1] = doc.periodEnd[1].year
                      \/ doc.periodEnd[1].month <= 6 /\ f_fiscal_year[1] = doc.periodEnd[1].year - 1)
            /\ ((f_fiscal_year # <<>> \/ f_period # <<>>) /\ doc.periodEnd = <<>>) =>
                  doc \notin Range(f_candidates)

C23_Witness ==
    /\ f_pc = "done"
    /\ f_fiscal_year = <<2023>> /\ f_period = <<>>
    /\ \E kept, late, blank \in ScannedAnnualReports :
          /\ kept.periodEnd = <<[year |-> 2024, month |-> 3]>> /\ kept \in Range(f_candidates)
          /\ late.periodEnd = <<[year |-> 2024, month |-> 12]>> /\ late \notin Range(f_candidates)
          /\ blank.periodEnd = <<>> /\ blank \notin Range(f_candidates)

(***************************************************************************)
(* EdinetReportQASkill.run                                                 *)
(***************************************************************************)
\* the first "]" of s at or after position k, 0 for none
RECURSIVE IndexOfClose(_, _)
IndexOfClose(s, k) ==
    IF k > Len(s) THEN 0 ELSE IF s[k] = "]" THEN k ELSE IndexOfClose(s, k + 1)

\* re.findall(r"\[([^\]]+)\]", text) from position k on
RECURSIVE BracketSegments(_, _)
BracketSegments(s, k) ==
    IF k > Len(s) THEN <<>>
    ELSE IF s[k] = "[" /\ IndexOfClose(s, k + 1) > k + 1
    THEN <<SubSeq(s, k + 1, IndexOfClose(s, k + 1) - 1)>> \o BracketSegments(s, IndexOfClose(s, k + 1) + 1)
    ELSE BracketSegments(s, k + 1)

\* re.findall(r"\bE\d{5}\b", text, flags=re.IGNORECASE) from position k on,
\* each match upper-cased
RECURSIVE FindBoundedEdinetCodes(_, _)
FindBoundedEdinetCodes(s, k) ==
    IF k + 5 > Len(s) THEN <<>>
    ELSE IF /\ WordBoundary(s, k - 1) /\ s[k] \in {"E", "e"}
            /\ \A j \in (k + 1)..(k + 5) : s[j] \in Digits
            /\ WordBoundary(s, k + 5)
    THEN <<UpperAll(SubSeq(s, k, k + 5))>> \o FindBoundedEdinetCodes(s, k + 6)
    ELSE FindBoundedEdinetCodes(s, k + 1)

\* lines 994-998: the codes of all bracket segments, each once
RECURSIVE SegmentCodes(_, _)
SegmentCodes(segments, codes) ==
    IF segments = <<>> THEN codes
    ELSE SegmentCodes(Tail(segments), AppendNew(codes, FindEdinetCodes(Head(segments))))

\* EdinetReportQASkill._extract_explicit_edinet_codes
ExtractExplicitEdinetCodes(text) ==
    IF SegmentCodes(BracketSegments(text, 1), <<>>) # <<>>
    THEN SegmentCodes(BracketSegments(text, 1), <<>>)
    ELSE AppendNew(<<>>, FindBoundedEdinetCodes(text, 1))

\* the shortest and the longest scan of EdinetReportQASkill._lookback_days
SkillMinLookback == 7
SkillMaxLookback == 730

\* EdinetReportQASkill._lookback_days
LookbackDays(value) ==
    IF (IF SkillMaxLookback < value THEN SkillMaxLookback ELSE value) < SkillMinLookback
    THEN SkillMinLookback
    ELSE (IF SkillMaxLookback < value THEN SkillMaxLookback ELSE value)

\* the code list the registry serves: one row, for the first company
CodeIndexRows == <<[edinet_code |-> E1, sec_code |-> Sec1, company_name |-> <<"n", "1">>]>>

\* EdinetReportQASkill._build_resolutions_from_edinet_codes: the explicit
\* codes arrive upper-cased and each once
BuildResolutions(explicit_codes, code_index) ==
    [k \in 1..Len(explicit_codes) |->
        IF \E r \in 1..Len(code_index) : code_index[r].edinet_code = explicit_codes[k]
        THEN [query |-> explicit_codes[k], edinet_code |-> explicit_codes[k],
              company_name |-> code_index[CHOOSE r \in 1..Len(code_index) :
                                             /\ code_index[r].edinet_code = explicit_codes[k]
                                             /\ \A q \in (r + 1)..Len(code_index) :
                                                   code_index[q].edinet_code # explicit_codes[k]].company_name,
              reason |-> "code"]
        ELSE [query |-> explicit_codes[k], edinet_code |-> explicit_codes[k],
              company_name |-> explicit_codes[k], reason |-> "code_name_unresolved"]]

\* the documents.json listing of a day: the annual reports of the companies
\* of filers are listed today, nothing on the days before
DailyDocs(filers, offset) ==
    IF offset = 0
    THEN SelectSeq(<<[docID |-> <<"d", "1">>, docTypeCode |-> "120", edinetCode |-> E1],
                     [docID |-> <<"d", "2">>, docTypeCode |-> "130", edinetCode |-> E2]>>,
                   LAMBDA doc : doc.edinetCode \in filers)
    ELSE <<>>

\* lines 588-593: the candidates among the documents of a day
DayCandidates(daily_docs, edinet_code) ==
    SelectSeq(daily_docs, LAMBDA doc : doc.docTypeCode \in DocTypeCodes /\ doc.edinetCode = edinet_code)

\* what client.get and response.json() of lines 576-585 can end in: a dict
\* with a list under "results", a dict with null under "results", JSON that
\* is no dict, a non-200 status, a body that is no JSON, an exception of the
\* transport
ListingOutcomes == {"ok", "null_results", "non_dict", "status", "invalid_json", "transport"}

\* the outcomes that do not end the run and leave the day without documents
MaxFailures == 1

\* the most sections the routing selects in the model (line 840: three)
MaxSelected == 2

\* lines 199-201: one line of the report's head per selected section
SelectedLines(n) == [i \in 1..n |-> "selected"]

\* len(selected), read off the report's head
NumSelected(report) == Cardinality({i \in 1..Len(report) : report[i] = "selected"})

\* line 230: the heading of a company's block, its name or else its query
Heading(resolution) ==
    CASE resolution.company_name = <<"n", "1">> -> "## n1"
      [] resolution.company_name = E1 -> "## E00001"
      [] OTHER -> "## E00002"

\* what extract_first_available returns for a section: a text, or None for
\* no tag candidates, no candidate in the document, no text under the tag
SectionOutcomes == {"text", "undefined", "absent", "empty"}

\* lines 258-268: one line per selected section, the text or the reason
SectionLines_TextOnly(results) ==
    SelectSeq([i \in 1..Len(results) |-> IF results[i] = "text" THEN "section_text" ELSE "section_diagnostic"],
              LAMBDA line : line = "section_text")
SectionLines(results) ==
    [i \in 1..Len(results) |-> IF results[i] = "text" THEN "section_text" ELSE "section_diagnostic"]

\* lines 270-273: the block of the sections without tag candidates
UnsupportedBlock(results) ==
    IF \E i \in 1..Len(results) : results[i] = "undefined" THEN <<"unsupported">> ELSE <<>>

\* line 265: the sections that gave a text
HitsOf(results) == Cardinality({i \in 1..Len(results) : results[i] = "text"})

\* what client.get of _load_code_index can end in
RegistryOutcomes == {"ok", "unparseable", "status", "transport"}

\* what _prepare_xbrl_file can end in: a cached file, a downloaded archive
\* with a document, an archive without one, no archive at all, a non-200
\* status, an exception of the transport
BundleOutcomes == {"cached", "ok", "no_xbrl", "bad_zip", "status", "transport"}

\* user texts: no code, one bracketed code, two bracketed codes in mixed
\* case, a code named twice without brackets, a bracket without a code
\* followed by a code
RunTextUniverse == {<<"a", "b">>, <<"[", "E", "0", "0", "0", "0", "1", "]">>, <<"[", "e", "0", "0", "0", "0", "1", ",", "E", "0", "0", "0", "0", "2", "]">>, <<"E", "0", "0", "0", "0", "2", " ", "e", "0", "0", "0", "0", "2">>, <<"[", "a", "b", "]", " ", "E", "0", "0", "0", "0", "1">>}

RunInit ==
    /\ k_user_text \in RunTextUniverse
    /\ k_settings \in [api_key : BOOLEAN, router_llm : BOOLEAN, registry_cached : BOOLEAN,
                       lookback_days : {0, 8}]
    /\ k_filers \in SUBSET {E1, E2}
    /\ k_code_index = <<>>
    /\ k_resolutions = <<>>
    /\ k_company = 0
    /\ k_offset = 0
    /\ k_docs_by_date = [o \in 0..(SkillMinLookback + 1) |-> "absent"]
    /\ k_api_errors = {}
    /\ k_failures = 0
    /\ k_candidates = <<>>
    /\ k_hits = 0
    /\ k_report = <<>>
    /\ k_pc = "start"

RunIdle ==
    /\ k_user_text = <<>>
    /\ k_settings = [api_key |-> FALSE, router_llm |-> FALSE, registry_cached |-> FALSE, lookback_days |-> 0]
    /\ k_filers = {}
    /\ k_code_index = <<>>
    /\ k_resolutions = <<>>
    /\ k_company = 0
    /\ k_offset = 0
    /\ k_docs_by_date = [o \in 0..(SkillMinLookback + 1) |-> "absent"]
    /\ k_api_errors = {}
    /\ k_failures = 0
    /\ k_candidates = <<>>
    /\ k_hits = 0
    /\ k_report = <<>>
    /\ k_pc = "done"

\* lines 164-182 and 831-849: the early returns, and the routing up to the
\* await of the re-ranking model
StartRun ==
    /\ k_pc = "start"
    /\ \E n \in 1..MaxSelected :
          IF ~k_settings.api_key
          THEN k_pc' = "done" /\ k_report' = <<"api_key_missing">>
          ELSE IF ExtractExplicitEdinetCodes(k_user_text) = <<>>
          THEN k_pc' = "done" /\ k_report' = <<"codes_missing">>
          ELSE IF k_settings.router_llm
          THEN k_pc' = "rerank" /\ k_report' = <<>>
          ELSE k_pc' = "load_index" /\ k_report' = <<"sections_by_rule">> \o SelectedLines(n)
    /\ UNCHANGED <<k_user_text, k_settings, k_filers, k_code_index, k_resolutions, k_company, k_offset,
                   k_docs_by_date, k_api_errors, k_failures, k_candidates, k_hits>>

\* lines 851-864 and 866-901: the re-ranking model answers, fails or has no
\* credentials
RerankResponse ==
    /\ k_pc = "rerank"
    /\ \E reranked \in {"exception", "empty", "ids"}, n \in 1..MaxSelected :
          k_report' = (IF reranked = "ids" THEN <<"sections_by_llm">> ELSE <<"sections_by_rule">>)
                          \o SelectedLines(n)
    /\ k_pc' = "load_index"
    /\ UNCHANGED <<k_user_text, k_settings, k_filers, k_code_index, k_resolutions, k_company, k_offset,
                   k_docs_by_date, k_api_errors, k_failures, k_candidates, k_hits>>

\* lines 190-227: the report's head once the code index is known; every
\* explicit code resolves, so the return of line 227 is never taken
AfterCodeIndex(code_index) ==
    /\ k_code_index' = code_index
    /\ k_resolutions' = BuildResolutions(ExtractExplicitEdinetCodes(k_user_text), code_index)
    /\ k_report' = k_report \o (IF code_index = <<>> THEN <<"warning_no_code_index">> ELSE <<>>)
                            \o <<Heading(BuildResolutions(ExtractExplicitEdinetCodes(k_user_text), code_index)[1])>>
    /\ k_company' = 1
    /\ k_offset' = 0
    /\ k_candidates' = <<>>
    /\ k_pc' = "scan"

\* lines 488-501: a fresh cached code list is used, else the download starts
LoadCodeIndex ==
    /\ k_pc = "load_index"
    /\ IF k_settings.registry_cached
       THEN AfterCodeIndex(CodeIndexRows)
       ELSE /\ k_pc' = "registry"
            /\ UNCHANGED <<k_code_index, k_resolutions, k_report, k_company, k_offset, k_candidates>>
    /\ UNCHANGED <<k_user_text, k_settings, k_filers, k_docs_by_date, k_api_errors, k_failures, k_hits>>

\* lines 501-508: the registry's answer arrives
RegistryResponse ==
    /\ k_pc = "registry"
    /\ \E outcome \in RegistryOutcomes :
          IF outcome = "transport"
          THEN /\ k_pc' = "raised"
               /\ UNCHANGED <<k_code_index, k_resolutions, k_report, k_company, k_offset, k_candidates>>
          ELSE AfterCodeIndex(IF outcome = "ok" THEN CodeIndexRows ELSE <<>>)
    /\ UNCHANGED <<k_user_text, k_settings, k_filers, k_docs_by_date, k_api_errors, k_failures, k_hits>>

\* lines 571-593: one day of the scan for the current company
ScanOneDay ==
    /\ k_pc = "scan"
    /\ k_offset < LookbackDays(k_settings.lookback_days)
    /\ IF k_docs_by_date[k_offset] # "absent"
       THEN /\ k_candidates' = k_candidates \o
                  DayCandidates(IF k_docs_by_date[k_offset] = "listed" THEN DailyDocs(k_filers, k_offset) ELSE <<>>,
                                k_resolutions[k_company].edinet_code)
            /\ k_offset' = k_offset + 1
            /\ UNCHANGED <<k_docs_by_date, k_api_errors, k_failures, k_pc>>
       ELSE \E outcome \in ListingOutcomes :
               IF outcome \in {"transport", "invalid_json", "null_results"}
               THEN /\ k_pc' = "raised"
                    /\ UNCHANGED <<k_docs_by_date, k_api_errors, k_failures, k_candidates, k_offset>>
               ELSE IF outcome = "status"
               THEN /\ k_failures < MaxFailures
                    /\ k_failures' = k_failures + 1
                    /\ k_api_errors' = k_api_errors \cup {<<"documents", k_offset>>}
                    /\ k_offset' = k_offset + 1
                    /\ UNCHANGED <<k_docs_by_date, k_candidates, k_pc>>
               ELSE IF outcome = "non_dict"
               THEN /\ k_failures < MaxFailures
                    /\ k_failures' = k_failures + 1
                    /\ k_docs_by_date' = [k_docs_by_date EXCEPT ![k_offset] = "empty"]
                    /\ k_offset' = k_offset + 1
                    /\ UNCHANGED <<k_api_errors, k_candidates, k_pc>>
               ELSE /\ k_docs_by_date' = [k_docs_by_date EXCEPT ![k_offset] = "listed"]
                    /\ k_candidates' = k_candidates \o
                          DayCandidates(DailyDocs(k_filers, k_offset), k_resolutions[k_company].edinet_code)
                    /\ k_offset' = k_offset + 1
                    /\ UNCHANGED <<k_api_errors, k_failures, k_pc>>
    /\ UNCHANGED <<k_user_text, k_settings, k_filers, k_code_index, k_resolutions, k_company, k_hits, k_report>>

\* lines 229-230 and 276-297: the next company, or the report's tail and the
\* return
NextCompany(report, api_errors, hits) ==
    IF k_company < Len(k_resolutions)
    THEN /\ k_company' = k_company + 1
         /\ k_offset' = 0
         /\ k_candidates' = <<>>
         /\ k_report' = Append(report, Heading(k_resolutions[k_company + 1]))
         /\ k_pc' = "scan"
    ELSE /\ k_report' = report \o (IF api_errors # {} THEN <<"api_errors">> ELSE <<>>)
                               \o <<"guide">>
                               \o (IF hits = 0 THEN <<"no_text_extracted">> ELSE <<>>)
         /\ k_pc' = "done"
         /\ UNCHANGED <<k_company, k_offset, k_candidates>>

\* lines 595-606 and 238-244: the scan of the company is over
EndScan ==
    /\ k_pc = "scan"
    /\ k_offset = LookbackDays(k_settings.lookback_days)
    /\ IF k_candidates = <<>>
       THEN NextCompany(Append(k_report, "filing_not_found"), k_api_errors, k_hits)
       ELSE /\ k_report' = Append(k_report, "filing")
            /\ k_pc' = "bundle"
            /\ UNCHANGED <<k_company, k_offset, k_candidates>>
    /\ UNCHANGED <<k_user_text, k_settings, k_filers, k_code_index, k_resolutions, k_docs_by_date,
                   k_api_errors, k_failures, k_hits>>

\* lines 245-274 and 771-813: the bundle arrives (or is cached) and the
\* sections are extracted from it
BundleResponse ==
    /\ k_pc = "bundle"
    /\ \E outcome \in BundleOutcomes :
          IF outcome = "transport"
          THEN /\ k_pc' = "raised"
               /\ UNCHANGED <<k_company, k_offset, k_candidates, k_report, k_api_errors, k_hits>>
          ELSE IF outcome \in {"cached", "ok"}
          THEN \E results \in [1..NumSelected(k_report) -> SectionOutcomes] :
                  /\ k_hits' = k_hits + HitsOf(results)
                  /\ k_api_errors' = k_api_errors
                  /\ NextCompany(k_report \o <<"extraction">> \o SectionLines(results)
                                          \o UnsupportedBlock(results),
                                 k_api_errors, k_hits + HitsOf(results))
          ELSE /\ k_hits' = k_hits
               /\ k_api_errors' = k_api_errors \cup
                      (IF outcome = "status" THEN {<<"bundle", k_company>>} ELSE {})
               /\ NextCompany(k_report \o <<"xbrl_failed">>,
                              k_api_errors \cup (IF outcome = "status" THEN {<<"bundle", k_company>>} ELSE {}),
                              k_hits)
    /\ UNCHANGED <<k_user_text, k_settings, k_filers, k_code_index, k_resolutions, k_docs_by_date, k_failures>>

(* C7: the skill's run never raises: for every outcome of every network call
   and parse step (registry download, daily index fetch, bundle download,
   archive extraction, document parsing) it returns a report string. *)
C7_RunNeverRaises ==
    /\ k_pc # "raised"
    /\ k_pc = "done" => k_report # <<>>

\* the headings of the companies' blocks
Headings == {"## n1", "## E00001", "## E00002"}

\* the lines of a section: its text or its diagnostic
SectionLineKinds == {"section_text", "section_diagnostic"}

(* C25: for every combination of per-organization outcomes (no filing
   found, bundle unavailable, section tag absent or empty) the report has
   one block per resolved organization, in the order the organizations were
   given, and in the block of an organization whose bundle was obtained
   every selected section has its text or a diagnostic line; after a
   failure of one organization the run goes on with the next. *)
C25_OneBlockPerOrganization ==
    /\ k_pc \in {"scan", "bundle"} =>
          SelectSeq(k_report, LAMBDA line : line \in Headings)
              = [k \in 1..k_company |-> Heading(k_resolutions[k])]
    /\ (k_pc = "done" /\ k_resolutions # <<>>) =>
          /\ SelectSeq(k_report, LAMBDA line : line \in Headings)
                = [k \in 1..Len(k_resolutions) |-> Heading(k_resolutions[k])]
          /\ \A p \in 1..Len(k_report) :
                k_report[p] \in Headings =>
                    \/ k_report[p + 1] = "filing_not_found"
                    \/ k_report[p + 1] = "filing" /\ k_report[p + 2] = "xbrl_failed"
                    \/ /\ k_report[p + 1] = "filing" /\ k_report[p + 2] = "extraction"
                       /\ \A i \in 1..NumSelected(k_report) : k_report[p + 2 + i] \in SectionLineKinds
                       /\ k_report[p + 3 + NumSelected(k_report)] \notin SectionLineKinds

C25_Witness ==
    /\ k_pc = "done"
    /\ Len(k_resolutions) = 2
    /\ NumSelected(k_report) = 2
    /\ \E p, q \in 1..Len(k_report) :
          /\ p < q
          /\ k_report[p] = "xbrl_failed"
          /\ k_report[q] = "extraction"
          /\ k_report[q + 1] = "section_diagnostic"
          /\ k_report[q + 2] = "section_text"

(* C26: every network or parse failure of a run (registry download, daily
   index fetch, bundle download, corrupt archive) is accumulated and listed
   in the error section of the final report, and the run goes on after it. *)
C26_EveryFailureInErrorSection ==
    /\ k_pc # "raised"
    /\ k_pc = "done" =>
          (("warning_no_code_index" \in Range(k_report)
               \/ "xbrl_failed" \in Range(k_report)
               \/ k_failures > 0)
            => "api_errors" \in Range(k_report))

\* the failures the code does list: a status other than 200 of a daily
\* listing or of a bundle
C26_StatusFailuresInErrorSection ==
    k_pc = "done" /\ k_api_errors # {} => "api_errors" \in Range(k_report)

(***************************************************************************)
(* DocumentsRepository.download_xbrl                                       *)
(*                                                                         *)
(* One repository instance and its cache root.  A document's cache         *)
(* directory holds at most one *.xbrl file: the one the last extraction    *)
(* left, inside PublicDoc ("public") or elsewhere ("other").               *)
(***************************************************************************)
DocIds == {"S1", "S2"}

\* the most calls of download_xbrl
MaxDownloads == 3

\* DocumentsRepository._find_cached_xbrl: <<>> for None
FindCachedXbrl(file, now) ==
    IF file # <<>> /\ file[1].kind = "public" /\ now - file[1].mtime <= TtlHours
    THEN <<file[1]>> ELSE <<>>

\* how the request of lines 155-159 and the extraction can end: the client
\* raises, a status other than 200, a body that is no archive, an archive
\* without a *.xbrl file under PublicDoc, an archive with one
DownloadOutcomes == {"transport", "status", "invalid_zip", "no_xbrl", "ok"}

DownloadInit ==
    /\ b_force_refresh \in BOOLEAN
    /\ b_now = 0
    /\ b_extracted = [d \in DocIds |-> <<>>]
    /\ b_doc = "S1"
    /\ b_cached = <<>>
    /\ b_requests = 0
    /\ b_calls = 0
    /\ b_outcome = "none"
    /\ b_api_errors = <<>>
    /\ b_result = <<>>
    /\ b_pc = "idle"

DownloadIdle ==
    /\ b_force_refresh = FALSE
    /\ b_now = 0
    /\ b_extracted = <<>>
    /\ b_doc = "S1"
    /\ b_cached = <<>>
    /\ b_requests = 0
    /\ b_calls = 0
    /\ b_outcome = "none"
    /\ b_api_errors = <<>>
    /\ b_result = <<>>
    /\ b_pc = "idle"

\* an hour passes between two calls
DownloadTick ==
    /\ b_pc = "idle"
    /\ b_now < MaxClock
    /\ b_now' = b_now + 1
    /\ UNCHANGED <<b_force_refresh, b_extracted, b_doc, b_cached, b_requests, b_calls, b_outcome,
                   b_api_errors, b_result, b_pc>>

\* lines 141-159: the call up to the await of client.get
DownloadXbrl(doc_id) ==
    /\ b_pc = "idle"
    /\ b_calls < MaxDownloads
    /\ b_calls' = b_calls + 1
    /\ b_doc' = doc_id
    /\ b_cached' = IF b_force_refresh THEN <<>> ELSE FindCachedXbrl(b_extracted[doc_id], b_now)
    /\ IF ~b_force_refresh /\ FindCachedXbrl(b_extracted[doc_id], b_now) # <<>>
       THEN /\ b_result' = <<[doc_id |-> doc_id, mtime |-> b_extracted[doc_id][1].mtime]>>
            /\ b_outcome' = "none"
            /\ UNCHANGED <<b_extracted, b_requests, b_pc>>
       ELSE /\ b_extracted' = [b_extracted EXCEPT ![doc_id] = <<>>]
            /\ b_requests' = b_requests + 1
            /\ b_outcome' = "pending"
            /\ b_pc' = "get"
            /\ UNCHANGED b_result
    /\ UNCHANGED <<b_force_refresh, b_now, b_api_errors>>

\* lines 155-177: the request ends
DownloadResponse ==
    /\ b_pc = "get"
    /\ \E outcome \in DownloadOutcomes :
          /\ b_outcome' = outcome
          /\ b_pc' = IF outcome = "transport" THEN "raised" ELSE "idle"
          /\ b_api_errors' = IF outcome \in {"status", "invalid_zip", "no_xbrl"}
                             THEN Append(b_api_errors, <<b_doc, outcome>>) ELSE b_api_errors
          /\ b_extracted' = IF outcome \in {"no_xbrl", "ok"}
                            THEN [b_extracted EXCEPT ![b_doc] =
                                    <<[kind |-> IF outcome = "ok" THEN "public" ELSE "other",
                                       mtime |-> b_now]>>]
                            ELSE b_extracted
          /\ b_result' = IF outcome = "ok" THEN <<[doc_id |-> b_doc, mtime |-> b_now]>>
                         ELSE IF outcome = "transport" THEN b_result ELSE <<>>
    /\ UNCHANGED <<b_force_refresh, b_now, b_doc, b_cached, b_requests, b_calls>>

(* C20: download_xbrl returns the fresh previously extracted content file
   without a request when one exists, and otherwise, for every failed
   request (the client raises, a status other than 200) and every failed
   archive (no archive, no public content file), appends an entry to the
   error list and returns None instead of raising. *)
C20_DownloadFailuresAreReported ==
    /\ b_pc # "raised"
    /\ (b_pc = "idle" /\ b_calls > 0) =>
          /\ (~b_force_refresh /\ b_cached # <<>>) =>
                (b_outcome = "none" /\ b_result # <<>> /\ b_result[1].doc_id = b_doc)
          /\ b_outcome \in {"transport", "status", "invalid_zip", "no_xbrl"} =>
                /\ b_result = <<>>
                /\ b_api_errors # <<>>
                /\ b_api_errors[Len(b_api_errors)][1] = b_doc

(***************************************************************************)
(* JsonFileCache (boj_timeseries_insight/cache.py)                         *)
(*                                                                         *)
(* A dict is a sequence of <<key, value>> pairs in insertion order.  A     *)
(* JSON text is a sequence of tokens.  The clock counts half hours.        *)
(***************************************************************************)
CacheNamespaces == {"meta", "data"}

\* params as the callers build them: the same two entries in both insertion
\* orders, and one entry alone
CacheParams ==
    {<<<<"k", "v">>>>, <<<<"a", "1">>, <<"k", "v">>>>, <<<<"k", "v">>, <<"a", "1">>>>}

\* payloads: parsed JSON objects
CachePayloads ==
    {<<<<"ok", <<"bool", "true">>>>>>, <<<<"n", <<"int", "1">>>>, <<"ok", <<"str", "x">>>>>>}

\* the keys of the params in sorted order (sort_keys=True)
ParamKeyOrder == <<"a", "k">>

\* the last half hour of the clock
MaxCacheClock == 3
\* the most calls of get and set
MaxCacheOps == 3

\* json.dumps(payload): an object text
JsonDumps(payload) ==
    <<<<"{">>>> \o [n \in 1..(2 * Len(payload)) |->
                 IF n % 2 = 1 THEN <<"key", payload[(n + 1) \div 2][1]>>
                 ELSE <<"value", payload[n \div 2][2]>>]
           \o <<<<"}">>>>

\* json.loads(text) followed by the isinstance test of line 24: <<>> when
\* the text is no JSON or no object, else the dict
JsonLoads(text) ==
    IF /\ Len(text) >= 2 /\ Len(text) % 2 = 0
       /\ text[1] = <<"{">> /\ text[Len(text)] = <<"}">>
       /\ \A n \in 2..(Len(text) - 1) :
             /\ Len(text[n]) = 2
             /\ text[n][1] = (IF n % 2 = 0 THEN "key" ELSE "value")
    THEN <<[k \in 1..((Len(text) - 2) \div 2) |-> <<text[2 * k][2], text[2 * k + 1][2]>>]>>
    ELSE <<>>

\* texts a file can hold that set did not write: broken JSON, a JSON array
BrokenTexts == {<<<<"{">>, <<"not-json">>>>, <<<<"[">>, <<"]">>>>}

\* JsonFileCache._path_for: the namespace and the params in key order (the
\* digest of the key text stands for the text)
PathFor(namespace, params) ==
    <<namespace,
      SelectSeq([n \in 1..Len(ParamKeyOrder) |->
                    IF \E k \in 1..Len(params) : params[k][1] = ParamKeyOrder[n]
                    THEN <<params[CHOOSE k \in 1..Len(params) : params[k][1] = ParamKeyOrder[n]]>>
                    ELSE <<>>],
                LAMBDA e : e # <<>>)>>

CachePaths == {PathFor(ns, ps) : ns \in CacheNamespaces, ps \in CacheParams}

\* a namespace and a parameter set, whatever the order of the entries
CacheKey(namespace, params) == <<namespace, {params[k] : k \in 1..Len(params)}>>

CacheKeys == {CacheKey(ns, ps) : ns \in CacheNamespaces, ps \in CacheParams}

\* mutant of IsFresh: the age is not looked at
IsFresh_Always(file, now, ttl_hours) == TRUE

\* JsonFileCache._is_fresh: age <= ttl_hours, in half hours
IsFresh(file, now, ttl_hours) == now - file[1].mtime <= 2 * ttl_hours

\* JsonFileCache.get
Get(files, path, now, ttl_hours) ==
    IF files[path] = <<>> \/ ~IsFresh(files[path], now, ttl_hours) THEN <<>>
    ELSE JsonLoads(files[path][1].text)

CacheInit ==
    /\ \E ttl_hours \in {0, 1} : c_ttl_hours = IF ttl_hours < 1 THEN 1 ELSE ttl_hours
    /\ c_now = 0
    /\ c_files = [p \in CachePaths |-> <<>>]
    /\ c_written = [key \in CacheKeys |-> <<>>]
    /\ c_ops = 0
    /\ c_last = <<>>
    /\ c_result = <<>>

CacheIdle ==
    /\ c_ttl_hours = 1
    /\ c_now = 0
    /\ c_files = <<>>
    /\ c_written = <<>>
    /\ c_ops = 0
    /\ c_last = <<>>
    /\ c_result = <<>>

\* half an hour passes
CacheTick ==
    /\ c_now < MaxCacheClock
    /\ c_now' = c_now + 1
    /\ c_last' = <<>>
    /\ UNCHANGED <<c_ttl_hours, c_files, c_written, c_ops, c_result>>

\* JsonFileCache.set: the text is written, or the write fails before the
\* file is touched, or it fails after the file was truncated
CacheSet(namespace, params, payload) ==
    /\ c_ops < MaxCacheOps
    /\ c_ops' = c_ops + 1
    /\ c_last' = <<>>
    /\ \E outcome \in {"written", "untouched", "truncated"} :
          /\ c_files' = IF outcome = "untouched" THEN c_files
                        ELSE [c_files EXCEPT ![PathFor(namespace, params)] =
                                <<[text |-> IF outcome = "written" THEN JsonDumps(payload) ELSE <<>>,
                                   mtime |-> c_now]>>]
          /\ c_written' = IF outcome = "untouched" THEN c_written
                          ELSE IF outcome = "written"
                          THEN [c_written EXCEPT ![CacheKey(namespace, params)] =
                                  <<[payload |-> payload, intact |-> TRUE]>>]
                          ELSE [c_written EXCEPT ![CacheKey(namespace, params)] =
                                  IF @ = <<>> THEN <<>> ELSE <<[@[1] EXCEPT !.intact = FALSE]>>]
    /\ UNCHANGED <<c_ttl_hours, c_now, c_result>>

\* something else overwrites an existing cache file with a text that is no
\* JSON object
CacheCorrupt(namespace, params) ==
    /\ c_files[PathFor(namespace, params)] # <<>>
    /\ c_written[CacheKey(namespace, params)] # <<>>
    /\ c_written[CacheKey(namespace, params)][1].intact
    /\ \E text \in BrokenTexts :
          c_files' = [c_files EXCEPT ![PathFor(namespace, params)] = <<[text |-> text, mtime |-> c_now]>>]
    /\ c_written' = [c_written EXCEPT ![CacheKey(namespace, params)] = <<[@[1] EXCEPT !.intact = FALSE]>>]
    /\ c_last' = <<>>
    /\ UNCHANGED <<c_ttl_hours, c_now, c_ops, c_result>>

\* a call of JsonFileCache.get
CacheGet(namespace, params) ==
    /\ c_ops < MaxCacheOps
    /\ c_ops' = c_ops + 1
    /\ c_last' = <<[namespace |-> namespace, params |-> params]>>
    /\ c_result' = Get(c_files, PathFor(namespace, params), c_now, c_ttl_hours)
    /\ UNCHANGED <<c_ttl_hours, c_now, c_files, c_written>>

\* the age in half hours of the file of a namespace and params: the time
\* since the last write that touched it
AgeOf(namespace, params) == c_now - c_files[PathFor(namespace, params)][1].mtime

(* C21: a cache read returns exactly the payload last written for the same
   namespace and parameter set when the entry still holds it and its age by
   modification time is at most the TTL, and reports a miss when the entry
   is older than the TTL, absent, or holds no valid JSON. *)
C21_CacheReadWithinTtl ==
    \A n \in 1..Len(c_last) :
        IF /\ c_written[CacheKey(c_last[n].namespace, c_last[n].params)] # <<>>
           /\ c_written[CacheKey(c_last[n].namespace, c_last[n].params)][1].intact
           /\ AgeOf(c_last[n].namespace, c_last[n].params) <= 2 * c_ttl_hours
        THEN c_result = <<c_written[CacheKey(c_last[n].namespace, c_last[n].params)][1].payload>>
        ELSE c_result = <<>>

\* TTL 1 hour: a read with the params in another insertion order than the
\* write returned the payload at the age of 30 minutes
C21_Witness ==
    /\ c_last # <<>>
    /\ c_ttl_hours = 1
    /\ c_last[1].params = <<<<"k", "v">>, <<"a", "1">>>>
    /\ c_files[PathFor(c_last[1].namespace, c_last[1].params)] # <<>>
    /\ AgeOf(c_last[1].namespace, c_last[1].params) = 1
    /\ c_result # <<>> /\ c_result[1] # <<>>
    /\ c_files[PathFor(c_last[1].namespace, <<<<"k", "v">>>>)] = <<>>

(***************************************************************************)
(* XbrlExtractor.extract_first_available                                   *)
(*                                                                         *)
(* A payload is a sequence of nodes of the decoded markup: a text node or  *)
(* a table, a table being a sequence of rows and a row a sequence of       *)
(* cells.                                                                  *)
(***************************************************************************)
TextNode(text) == [kind |-> "text", text |-> text, rows |-> <<>>]

TableNode(rows) == [kind |-> "table", text |-> <<>>, rows |-> rows]

\* the table of the scenario: three rows, the second of two cells
ThreeRowTable == TableNode(<<<<<<"a">>>>, <<<<"a">>, <<" ", "b">>>>, <<<<"c">>>>>>)

\* payloads of a section element
SectionPayloads ==
    {<<>>,
     <<TextNode(<<" ">>)>>,
     <<TextNode(<<"a">>)>>,
     <<TextNode(<<" ", "a", "NL", " ", "NL", "b">>)>>,
     <<ThreeRowTable>>,
     <<TableNode(<<<<<<"a">>, <<>>>>, <<>>, <<<<"a", "NL", "b">>>>>>)>>,
     <<TableNode(<<<<<<" ">>>>>>)>>,
     <<TableNode(<<>>)>>,
     <<TextNode(<<"a">>), TableNode(<<<<<<"b">>>>, <<<<"c">>>>>>)>>}

\* payloads of the continuation element
ContinuationPayloads == {<<>>, <<TextNode(<<"c">>)>>, <<TableNode(<<<<<<"c">>>>>>)>>}

SectionTags == {"SectionA", "SectionB", "Other"}

\* the documents: two elements that may bear a section tag and may continue
\* at the third, a continuation element
ExtractDocuments ==
    {<<e1, e2, e3>> :
        e1 \in [tag : SectionTags, id : {"a"}, continuedAt : {"", "c"}, payload : SectionPayloads],
        e2 \in [tag : SectionTags, id : {"b"}, continuedAt : {"", "c"}, payload : SectionPayloads],
        e3 \in [tag : {"continuation"}, id : {"c"}, continuedAt : {""}, payload : ContinuationPayloads]}

\* tag_candidates
TagCandidateLists ==
    {<<>>, <<"SectionA">>, <<"SectionB">>, <<"SectionA", "SectionB">>, <<"SectionB", "SectionA">>,
     <<"SectionC", "SectionB">>}

\* XbrlExtractor.__init__, lines 14-16: self._available_tags
AvailableTags(elems) == {elems[i].tag : i \in 1..Len(elems)}

\* line 29: the first candidate that is an available tag, <<>> for None
SelectedTag_Last(tag_candidates, available) ==
    IF \E i \in 1..Len(tag_candidates) : tag_candidates[i] \in available
    THEN <<tag_candidates[CHOOSE i \in 1..Len(tag_candidates) :
              /\ tag_candidates[i] \in available
              /\ \A j \in 1..Len(tag_candidates) : tag_candidates[j] \in available => j <= i]>>
    ELSE <<>>
SelectedTag(tag_candidates, available) ==
    IF \E i \in 1..Len(tag_candidates) : tag_candidates[i] \in available
    THEN <<tag_candidates[CHOOSE i \in 1..Len(tag_candidates) :
              /\ tag_candidates[i] \in available
              /\ \A j \in 1..Len(tag_candidates) : tag_candidates[j] \in available => i <= j]>>
    ELSE <<>>

\* lines 58-68 as a function: the payloads of the elements the chain reaches
RECURSIVE ContinuationChunks(_, _, _)
ContinuationChunks(elems, continued_at, visited) ==
    IF ~FollowsOn(continued_at, visited) \/ IdIndexGet(elems, continued_at) = <<>> THEN <<>>
    ELSE elems[IdIndexGet(elems, continued_at)[1]].payload
            \o ContinuationChunks(elems, elems[IdIndexGet(elems, continued_at)[1]].continuedAt,
                                  visited \cup {continued_at})

\* _collect_payload_with_continuation, lines 52-70, on nodes
CollectPayloadWithContinuation(elems, i) ==
    elems[i].payload \o ContinuationChunks(elems, elems[i].continuedAt, {})

\* line 40: the stripped payload is the empty string
IsEmptyPayload(nodes) ==
    \A n \in 1..Len(nodes) : nodes[n].kind = "text" /\ Strip(nodes[n].text) = <<>>

\* sep.join(parts)
RECURSIVE JoinWith(_, _)
JoinWith(parts, sep) ==
    IF parts = <<>> THEN <<>>
    ELSE IF Len(parts) = 1 THEN Head(parts)
    ELSE Head(parts) \o sep \o JoinWith(Tail(parts), sep)

\* str.splitlines
RECURSIVE SplitLines(_, _)
SplitLines(s, line) ==
    IF s = <<>> THEN (IF line = <<>> THEN <<>> ELSE <<line>>)
    ELSE IF Head(s) = "NL" THEN <<line>> \o SplitLines(Tail(s), <<>>)
    ELSE SplitLines(Tail(s), Append(line, Head(s)))

\* lines 84-87: the rows that have cells, the stripped cells joined
TableRows(rows) ==
    [k \in 1..Len(SelectSeq(rows, LAMBDA row : row # <<>>)) |->
        JoinWith([c \in 1..Len(SelectSeq(rows, LAMBDA row : row # <<>>)[k]) |->
                     Strip(SelectSeq(rows, LAMBDA row : row # <<>>)[k][c])],
                 <<" ", "|", " ">>)]

\* lines 88-89: what replaces a table; a table holds no text outside its cells
TableReplacement(rows) == <<"NL">> \o JoinWith(TableRows(rows), <<"NL">>) \o <<"NL">>

\* line 91: the strings of the soup, stripped, the empty ones left out
SoupStrings(nodes) ==
    SelectSeq([n \in 1..Len(nodes) |->
                  IF nodes[n].kind = "table" THEN Strip(TableReplacement(nodes[n].rows))
                  ELSE Strip(nodes[n].text)],
              LAMBDA str : str # <<>>)

\* lines 92-93: the stripped lines that are not empty
StrippedLines(text) ==
    SelectSeq([n \in 1..Len(SplitLines(text, <<>>)) |-> Strip(SplitLines(text, <<>>)[n])],
              LAMBDA line : line # <<>>)

\* _html_to_text, lines 80-93
HtmlToText(nodes) == JoinWith(StrippedLines(JoinWith(SoupStrings(nodes), <<"NL">>)), <<"NL">>)

ExtractInit ==
    /\ e_elems \in ExtractDocuments
    /\ e_tag_candidates \in TagCandidateLists
    /\ e_selected_tag = <<>>
    /\ e_pos = 0
    /\ e_texts = <<>>
    /\ e_result = <<>>
    /\ e_pc = "start"

ExtractIdle ==
    /\ e_elems = <<>>
    /\ e_tag_candidates = <<>>
    /\ e_selected_tag = <<>>
    /\ e_pos = 0
    /\ e_texts = <<>>
    /\ e_result = <<>>
    /\ e_pc = "done"

\* lines 26-31: the early returns and the choice of the tag
SelectTag ==
    /\ e_pc = "start"
    /\ e_selected_tag' = SelectedTag(e_tag_candidates, AvailableTags(e_elems))
    /\ IF e_tag_candidates = <<>>
       THEN e_result' = <<<<>>, <<"undefined">>>> /\ e_pc' = "done" /\ e_pos' = e_pos
       ELSE IF e_selected_tag' = <<>>
       THEN e_result' = <<<<>>, <<"absent">>>> /\ e_pc' = "done" /\ e_pos' = e_pos
       ELSE e_result' = e_result /\ e_pc' = "iter" /\ e_pos' = 1
    /\ UNCHANGED <<e_elems, e_tag_candidates, e_texts>>

\* lines 34-45: one element of root.iter()
ExtractElement ==
    /\ e_pc = "iter"
    /\ e_pos <= Len(e_elems)
    /\ e_pos' = e_pos + 1
    /\ e_texts' =
          IF e_elems[e_pos].tag # e_selected_tag[1] THEN e_texts
          ELSE IF IsEmptyPayload(CollectPayloadWithContinuation(e_elems, e_pos)) THEN e_texts
          ELSE IF Strip(HtmlToText(CollectPayloadWithContinuation(e_elems, e_pos))) = <<>> THEN e_texts
          ELSE Append(e_texts, Strip(HtmlToText(CollectPayloadWithContinuation(e_elems, e_pos))))
    /\ UNCHANGED <<e_elems, e_tag_candidates, e_selected_tag, e_result, e_pc>>

\* lines 47-50
ReturnTexts ==
    /\ e_pc = "iter"
    /\ e_pos > Len(e_elems)
    /\ e_result' = IF e_texts = <<>> THEN <<<<>>, <<"empty", e_selected_tag[1]>>>>
                   ELSE <<<<JoinWith(e_texts, <<"NL", "NL">>)>>, <<"tag", e_selected_tag[1]>>>>
    /\ e_pc' = "done"
    /\ UNCHANGED <<e_elems, e_tag_candidates, e_selected_tag, e_pos, e_texts>>

\* the elements of the document that bear the tag
Bearing(tag) == {i \in 1..Len(e_elems) : e_elems[i].tag = tag}

\* the tag is a candidate that occurs and no earlier candidate occurs
IsFirstOccurring(tag) ==
    \E i \in 1..Len(e_tag_candidates) :
        /\ e_tag_candidates[i] = tag
        /\ Bearing(tag) # {}
        /\ \A j \in 1..(i - 1) : Bearing(e_tag_candidates[j]) = {}

\* a table whose rows all have cells, every cell a word on one line
IsPlainTable(node) ==
    /\ node.kind = "table"
    /\ node.rows # <<>>
    /\ \A r \in 1..Len(node.rows) :
          /\ node.rows[r] # <<>>
          /\ \A c \in 1..Len(node.rows[r]) :
                /\ Strip(node.rows[r][c]) # <<>>
                /\ \A k \in 1..Len(node.rows[r][c]) : node.rows[r][c][k] # "NL"

\* the document exposes only SectionB, once, with one plain table
OnlySectionBWithTable ==
    /\ Bearing("SectionA") = {}
    /\ \E i \in 1..Len(e_elems) :
          /\ Bearing("SectionB") = {i}
          /\ e_elems[i].continuedAt = ""
          /\ Len(e_elems[i].payload) = 1
          /\ IsPlainTable(e_elems[i].payload[1])

(* C22: extract_first_available works on the first tag, in candidate-list
   order, that occurs in the document and returns it as the matched tag
   together with the text; a document that exposes only SectionB with a
   table, asked for [SectionA, SectionB], yields SectionB and one line per
   table row; the text is null, with a reason, exactly when the candidate
   list is empty, no candidate occurs, or every element bearing the chosen
   tag decodes to empty text. *)
C22_FirstOccurringTagOrReason ==
    e_pc = "done" /\ e_elems # <<>> =>
        /\ e_result[1] = <<>> <=>
              \/ e_tag_candidates = <<>>
              \/ \A i \in 1..Len(e_tag_candidates) : Bearing(e_tag_candidates[i]) = {}
              \/ \E tag \in SectionTags :
                    /\ IsFirstOccurring(tag)
                    /\ \A i \in Bearing(tag) :
                          HtmlToText(CollectPayloadWithContinuation(e_elems, i)) = <<>>
        /\ e_result[1] = <<>> => e_result[2][1] \in {"undefined", "absent", "empty"}
        /\ e_result[1] # <<>> =>
              /\ e_result[2][1] = "tag"
              /\ IsFirstOccurring(e_result[2][2])
              /\ \A i \in Bearing(e_result[2][2]) :
                    \A line \in Range(StrippedLines(HtmlToText(CollectPayloadWithContinuation(e_elems, i)))) :
                        line \in Range(StrippedLines(e_result[1][1]))
        /\ e_tag_candidates = <<"SectionA", "SectionB">> /\ OnlySectionBWithTable =>
              /\ e_result[1] # <<>>
              /\ e_result[2] = <<"tag", "SectionB">>
              /\ \E i \in Bearing("SectionB") :
                    Len(SplitLines(e_result[1][1], <<>>)) = Len(e_elems[i].payload[1].rows)

C22_Witness ==
    /\ e_pc = "done"
    /\ e_tag_candidates = <<"SectionA", "SectionB">>
    /\ OnlySectionBWithTable
    /\ \E i \in Bearing("SectionB") : e_elems[i].payload = <<ThreeRowTable>>
    /\ e_result[2] = <<"tag", "SectionB">>
    /\ Len(SplitLines(e_result[1][1], <<>>)) = 3

(***************************************************************************)
(* DocumentsRepository.collect_recent_company_entries                      *)
(***************************************************************************)
\* line 119: the shortest and the longest scan, in days
CollectMinLookback == 30
CollectMaxLookback == 400

\* line 119: max_days
CollectMaxDays(lookback_days) ==
    IF (IF lookback_days < CollectMinLookback THEN CollectMinLookback ELSE lookback_days)
          > CollectMaxLookback
    THEN CollectMaxLookback
    ELSE (IF lookback_days < CollectMinLookback THEN CollectMinLookback ELSE lookback_days)

\* a document of a daily listing with the fields the collection reads
CompanyDoc(offset, type, code, name, sec, hour) ==
    [docTypeCode |-> type, edinetCode |-> code, filerName |-> name, secCode |-> sec,
     submitDateTime |-> DateText(Today - offset) \o <<" ">> \o hour,
     submitDate |-> <<>>, submitTime |-> <<>>]

OldName == <<"n", "1">>
NewName == <<"n", "2">>

\* the listings a day can have, besides the empty one: one annual report;
\* two annual reports of one company, the later one listed last or first;
\* two annual reports of one company submitted in the same minute, in both
\* orders; another company's annual report, a quarterly report and an
\* annual report without a filer name
CompanyListingOptions(offset) ==
    {<<CompanyDoc(offset, "120", E1, OldName, Sec1, Morning)>>,
     <<CompanyDoc(offset, "120", E1, OldName, Sec1, Morning),
       CompanyDoc(offset, "130", E1 \o <<" ">>, NewName, Sec1 \o <<"0">>, Afternoon)>>,
     <<CompanyDoc(offset, "130", E1, NewName, Sec1 \o <<"0">>, Afternoon),
       CompanyDoc(offset, "120", E1, OldName, Sec1, Morning)>>,
     <<CompanyDoc(offset, "120", E1, OldName, Sec1, Morning),
       CompanyDoc(offset, "130", E1, NewName, <<>>, Morning)>>,
     <<CompanyDoc(offset, "130", E1, NewName, <<>>, Morning),
       CompanyDoc(offset, "120", E1, OldName, Sec1, Morning)>>,
     <<CompanyDoc(offset, "120", E2, OldName, <<"9", "-", "9">>, Morning),
       CompanyDoc(offset, "140", E1, NewName, Sec1, Afternoon),
       CompanyDoc(offset, "120", E1, <<" ">>, Sec1, Afternoon)>>}

\* the offsets at which the model places listings: today, the first day
\* outside the shortest scan and the last day inside the longest scan
CollectOffsets == {0, CollectMinLookback, CollectMaxLookback - 1}

\* what get_documents_for_date returns for each day: at most two days list
\* anything, each day its own documents
CompanyWorlds ==
    {[o \in CollectOffsets |-> <<>>]}
    \cup {[o \in CollectOffsets |-> IF o = a THEN la ELSE <<>>] :
            a \in CollectOffsets, la \in UNION {CompanyListingOptions(o) : o \in CollectOffsets}}
    \cup {[o \in CollectOffsets |-> IF o = a THEN la ELSE IF o = b THEN lb ELSE <<>>] :
            a \in CollectOffsets, b \in CollectOffsets,
            la \in UNION {CompanyListingOptions(o) : o \in CollectOffsets},
            lb \in UNION {CompanyListingOptions(o) : o \in CollectOffsets}}

\* the listings whose documents carry the day they are listed on
CompanyWellDated(world) ==
    \A o \in CollectOffsets : world[o] = <<>> \/ world[o] \in CompanyListingOptions(o)

\* line 133: re.sub(r"\D", "", sec)[:4]
SecCodeOf(sec) ==
    SubSeq(SelectSeq(sec, LAMBDA c : c \in Digits), 1,
           IF Len(SelectSeq(sec, LAMBDA c : c \in Digits)) < 4
           THEN Len(SelectSeq(sec, LAMBDA c : c \in Digits)) ELSE 4)

\* lines 132-137: the entry made of a document
EntryOf(doc) ==
    [edinet_code |-> Strip(doc.edinetCode), sec_code |-> SecCodeOf(doc.secCode),
     company_name |-> Strip(doc.filerName), submit_datetime |-> DocSortKey(doc)]

\* lines 124-137: one document of the listing; entries is the dict in
\* insertion order
CollectDoc(entries, doc) ==
    IF doc.docTypeCode \notin DocTypeCodes THEN entries
    ELSE IF Strip(doc.edinetCode) = <<>> \/ Strip(doc.filerName) = <<>> THEN entries
    ELSE IF \E i \in 1..Len(entries) :
               /\ entries[i].edinet_code = Strip(doc.edinetCode)
               /\ ~StrLess(entries[i].submit_datetime, DocSortKey(doc))
    THEN entries
    ELSE IF \E i \in 1..Len(entries) : entries[i].edinet_code = Strip(doc.edinetCode)
    THEN [i \in 1..Len(entries) |->
             IF entries[i].edinet_code = Strip(doc.edinetCode) THEN EntryOf(doc) ELSE entries[i]]
    ELSE Append(entries, EntryOf(doc))

\* line 123: the loop over the documents of a day
RECURSIVE CollectDocs(_, _)
CollectDocs(entries, docs) ==
    IF docs = <<>> THEN entries ELSE CollectDocs(CollectDoc(entries, Head(docs)), Tail(docs))

CollectInit ==
    /\ g_world \in {w \in CompanyWorlds : CompanyWellDated(w)}
    /\ g_lookback \in {0, 45, 1000}
    /\ g_offset = 0
    /\ g_entries = <<>>
    /\ g_result = <<>>
    /\ g_pc = "scan"

CollectIdle ==
    /\ g_world = <<>>
    /\ g_lookback = 0
    /\ g_offset = 0
    /\ g_entries = <<>>
    /\ g_result = <<>>
    /\ g_pc = "done"

\* lines 120-137: one day of the scan
CollectDay ==
    /\ g_pc = "scan"
    /\ g_offset < CollectMaxDays(g_lookback)
    /\ g_entries' = CollectDocs(g_entries, IF g_offset \in CollectOffsets THEN g_world[g_offset] ELSE <<>>)
    /\ g_offset' = g_offset + 1
    /\ UNCHANGED <<g_world, g_lookback, g_result, g_pc>>

\* line 139
ReturnEntries ==
    /\ g_pc = "scan"
    /\ g_offset = CollectMaxDays(g_lookback)
    /\ g_result' = g_entries
    /\ g_pc' = "done"
    /\ UNCHANGED <<g_world, g_lookback, g_offset, g_entries>>

\* the annual reports of an organization on the days scanned that name
\* their filer
NamedAnnualReports(code) ==
    {doc \in UNION {Range(g_world[o]) : o \in {o \in CollectOffsets : o < g_offset}} :
        /\ doc.docTypeCode \in {"120", "130"}
        /\ Strip(doc.edinetCode) = code
        /\ Strip(doc.filerName) # <<>>}

\* those of them no other was submitted after
LatestAnnualReports(code) ==
    {doc \in NamedAnnualReports(code) :
        \A other \in NamedAnnualReports(code) :
            Chronological(other.submitDateTime) <= Chronological(doc.submitDateTime)}

(* C24: collect_recent_company_entries returns at most one entry per
   organization code, and the entry of an organization carries the name and
   the secondary code of its annual report with the latest submission
   timestamp among the scanned documents, whatever the order in which the
   days and the documents are visited: the result is determined by the set
   of the scanned documents. *)
C24_LatestEntryIndependentOfOrder ==
    g_pc = "done" =>
        /\ \A i, j \in 1..Len(g_result) :
              g_result[i].edinet_code = g_result[j].edinet_code => i = j
        /\ \A code \in {E1, E2} :
              /\ NamedAnnualReports(code) = {} =>
                    \A i \in 1..Len(g_result) : g_result[i].edinet_code # code
              /\ \A doc \in LatestAnnualReports(code) :
                    \E i \in 1..Len(g_result) :
                        /\ g_result[i].edinet_code = code
                        /\ g_result[i].company_name = Strip(doc.filerName)
                        /\ g_result[i].sec_code = SecCodeOf(doc.secCode)

\* without documents submitted in the same minute the entry is the latest
\* annual report's
C24_LatestEntryWithoutTies ==
    g_pc = "done" =>
        \A code \in {E1, E2} :
            Cardinality(LatestAnnualReports(code)) = 1 =>
                \A doc \in LatestAnnualReports(code) :
                    \E i \in 1..Len(g_result) :
                        /\ g_result[i].edinet_code = code
                        /\ g_result[i].company_name = Strip(doc.filerName)
                        /\ g_result[i].sec_code = SecCodeOf(doc.secCode)

(***************************************************************************)
(* Specifications: one per component, the others at rest                   *)
(***************************************************************************)
vars == <<rvars, dvars, xvars, svars, ivars, fvars, kvars, bvars, cvars, evars, gvars>>

\* every component but this one stays at rest
OthersResolve == UNCHANGED <<dvars, xvars, svars, ivars, fvars, kvars, bvars, cvars, evars, gvars>>

InitResolve == ResolveInit /\ DocsIdle /\ XbrlIdle /\ SectionsIdle /\ IntentIdle /\ FilingIdle /\ RunIdle /\ DownloadIdle /\ CacheIdle /\ ExtractIdle /\ CollectIdle

NextResolve ==
    \/ ResolveQuery /\ OthersResolve
    \/ ReturnResults /\ OthersResolve

SpecResolve == InitResolve /\ [][NextResolve]_vars

\* every component but this one stays at rest
OthersDocs == UNCHANGED <<rvars, xvars, svars, ivars, fvars, kvars, bvars, cvars, evars, gvars>>

InitDocs == DocsInit /\ ResolveIdle /\ XbrlIdle /\ SectionsIdle /\ IntentIdle /\ FilingIdle /\ RunIdle /\ DownloadIdle /\ CacheIdle /\ ExtractIdle /\ CollectIdle

NextDocs ==
    \/ Tick /\ OthersDocs
    \/ RemoteUpdate /\ OthersDocs
    \/ \E p \in Requests : Call(p) /\ OthersDocs
    \/ \E p \in Requests : ProbeResponse(p) /\ OthersDocs
    \/ \E p \in Requests : FullResponse(p) /\ OthersDocs

SpecDocs == InitDocs /\ [][NextDocs]_vars

\* every component but this one stays at rest
OthersXbrl == UNCHANGED <<rvars, dvars, svars, ivars, fvars, kvars, bvars, cvars, evars, gvars>>

InitXbrl == XbrlInit /\ ResolveIdle /\ DocsIdle /\ SectionsIdle /\ IntentIdle /\ FilingIdle /\ RunIdle /\ DownloadIdle /\ CacheIdle /\ ExtractIdle /\ CollectIdle

NextXbrl ==
    \/ FollowContinuation /\ OthersXbrl
    \/ ReturnPayload /\ OthersXbrl

SpecXbrl == InitXbrl /\ [][NextXbrl]_vars

\* every component but this one stays at rest
OthersSections == UNCHANGED <<rvars, dvars, xvars, ivars, fvars, kvars, bvars, cvars, evars, gvars>>

InitSections == SectionsInit /\ ResolveIdle /\ DocsIdle /\ XbrlIdle /\ IntentIdle /\ FilingIdle /\ RunIdle /\ DownloadIdle /\ CacheIdle /\ ExtractIdle /\ CollectIdle

NextSections ==
    \/ MatchQuery /\ OthersSections
    \/ FillByKeywords /\ OthersSections
    \/ DefaultsAndReturn /\ OthersSections

SpecSections == InitSections /\ [][NextSections]_vars

\* every component but this one stays at rest
OthersIntent == UNCHANGED <<rvars, dvars, xvars, svars, fvars, kvars, bvars, cvars, evars, gvars>>

InitIntent == IntentInit /\ ResolveIdle /\ DocsIdle /\ XbrlIdle /\ SectionsIdle /\ FilingIdle /\ RunIdle /\ DownloadIdle /\ CacheIdle /\ ExtractIdle /\ CollectIdle

NextIntent ==
    \/ StartParse /\ OthersIntent
    \/ LlmResponse /\ OthersIntent

SpecIntent == InitIntent /\ [][NextIntent]_vars

\* every component but this one stays at rest
OthersFiling == UNCHANGED <<rvars, dvars, xvars, svars, ivars, kvars, bvars, cvars, evars, gvars>>

InitFiling == FilingInit /\ ResolveIdle /\ DocsIdle /\ XbrlIdle /\ SectionsIdle /\ IntentIdle /\ RunIdle /\ DownloadIdle /\ CacheIdle /\ ExtractIdle /\ CollectIdle

NextFiling ==
    \/ ScanDay /\ OthersFiling
    \/ ReturnFiling /\ OthersFiling

SpecFiling == InitFiling /\ [][NextFiling]_vars

\* every component but this one stays at rest
OthersRun == UNCHANGED <<rvars, dvars, xvars, svars, ivars, fvars, bvars, cvars, evars, gvars>>

InitRun == RunInit /\ ResolveIdle /\ DocsIdle /\ XbrlIdle /\ SectionsIdle /\ IntentIdle /\ FilingIdle /\ DownloadIdle /\ CacheIdle /\ ExtractIdle /\ CollectIdle

NextRun ==
    \/ StartRun /\ OthersRun
    \/ RerankResponse /\ OthersRun
    \/ LoadCodeIndex /\ OthersRun
    \/ RegistryResponse /\ OthersRun
    \/ ScanOneDay /\ OthersRun
    \/ EndScan /\ OthersRun
    \/ BundleResponse /\ OthersRun

SpecRun == InitRun /\ [][NextRun]_vars

\* every component but this one stays at rest
OthersDownload == UNCHANGED <<rvars, dvars, xvars, svars, ivars, fvars, kvars, cvars, evars, gvars>>

InitDownload == DownloadInit /\ ResolveIdle /\ DocsIdle /\ XbrlIdle /\ SectionsIdle /\ IntentIdle /\ FilingIdle /\ RunIdle /\ CacheIdle /\ ExtractIdle /\ CollectIdle

NextDownload ==
    \/ DownloadTick /\ OthersDownload
    \/ \E doc_id \in DocIds : DownloadXbrl(doc_id) /\ OthersDownload
    \/ DownloadResponse /\ OthersDownload

SpecDownload == InitDownload /\ [][NextDownload]_vars

\* every component but this one stays at rest
OthersCache == UNCHANGED <<rvars, dvars, xvars, svars, ivars, fvars, kvars, bvars, evars, gvars>>

InitCache == CacheInit /\ ResolveIdle /\ DocsIdle /\ XbrlIdle /\ SectionsIdle /\ IntentIdle /\ FilingIdle /\ RunIdle /\ DownloadIdle /\ ExtractIdle /\ CollectIdle

NextCache ==
    \/ CacheTick /\ OthersCache
    \/ \E ns \in CacheNamespaces, ps \in CacheParams, payload \in CachePayloads : CacheSet(ns, ps, payload) /\ OthersCache
    \/ \E ns \in CacheNamespaces, ps \in CacheParams : CacheCorrupt(ns, ps) /\ OthersCache
    \/ \E ns \in CacheNamespaces, ps \in CacheParams : CacheGet(ns, ps) /\ OthersCache

SpecCache == InitCache /\ [][NextCache]_vars

\* every component but this one stays at rest
OthersExtract == UNCHANGED <<rvars, dvars, xvars, svars, ivars, fvars, kvars, bvars, cvars, gvars>>

InitExtract == ExtractInit /\ ResolveIdle /\ DocsIdle /\ XbrlIdle /\ SectionsIdle /\ IntentIdle /\ FilingIdle /\ RunIdle /\ DownloadIdle /\ CacheIdle /\ CollectIdle

NextExtract ==
    \/ SelectTag /\ OthersExtract
    \/ ExtractElement /\ OthersExtract
    \/ ReturnTexts /\ OthersExtract

SpecExtract == InitExtract /\ [][NextExtract]_vars

\* every component but this one stays at rest
OthersCollect == UNCHANGED <<rvars, dvars, xvars, svars, ivars, fvars, kvars, bvars, cvars, evars>>

InitCollect == CollectInit /\ ResolveIdle /\ DocsIdle /\ XbrlIdle /\ SectionsIdle /\ IntentIdle /\ FilingIdle /\ RunIdle /\ DownloadIdle /\ CacheIdle /\ ExtractIdle

NextCollect ==
    \/ CollectDay /\ OthersCollect
    \/ ReturnEntries /\ OthersCollect

SpecCollect == InitCollect /\ [][NextCollect]_vars
====
